---- MODULE Spec2Model ----
(***************************************************************************)
(* IaC-Genius: the encrypted configuration store (config_handler.py), the  *)
(* provider registry (llm_integration.py), credential resolution in        *)
(* generate_infrastructure (generator.py) and the generate / modify / save *)
(* sessions of the command line (cli.py) and the web page                  *)
(* (streamlit_app.py).                                                     *)
(*                                                                         *)
(* Representation of Python values:                                        *)
(*   - provider and model names are strings; "" stands for an unset        *)
(*     environment variable (os.environ.get(...) or ... treats both alike) *)
(*   - a secret is a sequence of tokens: None is <<"None">>, the empty     *)
(*     string is <<>>, the plaintext "A" is <<"A">>, and a Fernet token    *)
(*     made with key k from plaintext s is <<"gAAAAA", k>> \o s            *)
(*   - a dict is a function whose DOMAIN is its key set                    *)
(*   - an error message is the sequence of its parts                       *)
(***************************************************************************)
EXTENDS Naturals, Sequences, FiniteSets, TLC

VARIABLES keyring, file, env, last, gen, gp, cli, st, rd

vars == <<keyring, file, env, last, gen, gp, cli, st, rd>>

(***************************************************************************)
(* Python values                                                           *)
(***************************************************************************)
None == <<"None">>

Truthy(v) == v # None /\ v # <<>>

\* a or b
Or(a, b) == IF Truthy(a) THEN a ELSE b

EmptyDict == [k \in {} |-> None]

\* d.get(k, dflt)
Get(d, k, dflt) == IF k \in DOMAIN d THEN d[k] ELSE dflt

\* {**a, **b}  /  a.update(b)
Merge(a, b) == [k \in DOMAIN a \cup DOMAIN b |-> IF k \in DOMAIN b THEN b[k] ELSE a[k]]

\* x in list
InList(x, l) == \E i \in 1..Len(l) : l[i] = x

\* part in msg
Contains(msg, part) == \E i \in 1..Len(msg) : msg[i] = part

(***************************************************************************)
(* Secret Codec: cryptography.fernet with the key kept in the keyring      *)
(***************************************************************************)
FernetTag == "gAAAAA"

NoKey == "no-key"

Keys == {"k1", "k2"}

Encrypt(k, s) == <<FernetTag, k>> \o s

IsToken(k, c) == Len(c) >= 2 /\ c[1] = FernetTag /\ c[2] = k

\* fernet.decrypt: ok is FALSE where the library raises InvalidToken
Decrypt(k, c) ==
    IF IsToken(k, c) THEN [ok |-> TRUE, text |-> SubSeq(c, 3, Len(c))]
                     ELSE [ok |-> FALSE, text |-> None]

\* the secure credential store cannot be reached: keyring.get_password raises
KeyStoreDown == "store-down"

\* get_fernet(): the key in the keyring, generating and storing `fresh` if
\* the keyring has none
get_fernet(kr, fresh) == IF kr = NoKey THEN fresh ELSE kr

(***************************************************************************)
(* The settings file ~/.iacgeniusrc: a Fernet token of the TOML text       *)
(***************************************************************************)
NoFile == [exists |-> FALSE, key |-> NoKey, defaults |-> EmptyDict, presets |-> EmptyDict]

\* toml.dumps leaves out the keys whose value is None (of the defaults only
\* api_key can be None: provider and model always hold a string)
TomlDumps(d) == [k \in {x \in DOMAIN d : x = "api_key" => d[x] # None} |-> d[k]]

BuiltinDefaults ==
    [provider |-> "deepseek", model |-> "deepseek-chat", api_key |-> None]

\* the environment variable {PROVIDER}_API_KEY of a provider name
provider_env_key_name(p) ==
    CASE p = "deepseek"   -> "DEEPSEEK_API_KEY"
      [] p = "openai"     -> "OPENAI_API_KEY"
      [] p = "anthropic"  -> "ANTHROPIC_API_KEY"
      [] p = "openrouter" -> "OPENROUTER_API_KEY"
      [] p = "bedrock"    -> "BEDROCK_API_KEY"
      [] p = "ollama"     -> "OLLAMA_API_KEY"
      [] OTHER            -> "UNKNOWN-VENDOR_API_KEY"

KeyEnvNames ==
    {"IACGENIUS_API_KEY", "DEEPSEEK_API_KEY", "OPENAI_API_KEY", "ANTHROPIC_API_KEY",
     "OPENROUTER_API_KEY", "BEDROCK_API_KEY", "OLLAMA_API_KEY", "UNKNOWN-VENDOR_API_KEY"}

StoredDefaultsRaw(f, k) == f.defaults

\* the stored defaults as read_config merges them: the file's defaults with
\* the api_key field decrypted, or set to None where that fails
StoredDefaults(f, k) ==
    IF "api_key" \in DOMAIN f.defaults /\ Truthy(f.defaults["api_key"])
    THEN [f.defaults EXCEPT !["api_key"] =
             IF Decrypt(k, @).ok THEN Decrypt(k, @).text ELSE None]
    ELSE f.defaults

\* config["defaults"] after the file part of read_config
FileDefaults(f, k) ==
    IF f.exists /\ f.key = k
    THEN Merge(BuiltinDefaults, StoredDefaults(f, k))
    ELSE BuiltinDefaults

FilePresets(f, k) == IF f.exists /\ f.key = k THEN f.presets ELSE EmptyDict

GenericFirst(specific, generic) == Or(generic, specific)

\* os.environ.get(provider_env_key_name) or os.environ.get("IACGENIUS_API_KEY")
SpecificFirst(specific, generic) == Or(specific, generic)

\* the environment part of read_config
EnvDefaults(d, e) ==
    LET current_provider ==
            IF e.provider # "" THEN e.provider
            ELSE IF d["provider"] # "" THEN d["provider"] ELSE "deepseek"
        current_model == IF e.model # "" THEN e.model ELSE d["model"]
        api_key_from_env ==
            SpecificFirst(e.keys[provider_env_key_name(current_provider)],
                          e.keys["IACGENIUS_API_KEY"])
    IN [d EXCEPT !["provider"] = current_provider,
                 !["model"]    = current_model,
                 !["api_key"]  = IF Truthy(api_key_from_env) THEN api_key_from_env ELSE @]

\* what goes wrong in the try block of read_config: "keyring" when
\* get_fernet cannot obtain the key, "decrypt" when the file contents do not
\* decrypt or parse with it, "none" otherwise
ReadFailure(f, kr, fresh) ==
    IF ~f.exists THEN "none"
    ELSE IF kr = KeyStoreDown THEN "keyring"
    ELSE IF f.key # get_fernet(kr, fresh) THEN "decrypt"
    ELSE "none"

ReadConfigCatchesDecryptOnly(failure) == failure # "keyring"

\* config_handler.py 55-60: except Exception around the whole file part
ReadConfigCatches(failure) == TRUE

\* read_config(): the merged configuration and the keyring afterwards
read_config(f, kr, e, fresh) ==
    LET k == IF f.exists /\ kr # KeyStoreDown THEN get_fernet(kr, fresh) ELSE kr
        failure == ReadFailure(f, kr, fresh)
    IN [config  |-> [defaults |-> EnvDefaults(FileDefaults(f, k), e),
                     presets  |-> FilePresets(f, k)],
        keyring |-> k,
        failure |-> failure,
        raised  |-> failure # "none" /\ ~ReadConfigCatches(failure)]

\* get_default(key)
get_default(key, f, kr, e, fresh) == read_config(f, kr, e, fresh).config.defaults[key]

\* write_config(config): the settings file afterwards
write_config(config, k) ==
    [exists   |-> TRUE,
     key      |-> k,
     defaults |-> IF "defaults" \in DOMAIN config THEN TomlDumps(config["defaults"]) ELSE EmptyDict,
     presets  |-> IF "presets" \in DOMAIN config THEN config["presets"] ELSE EmptyDict]

(***************************************************************************)
(* Provider registry and providers (llm_integration.py, llm_providers.py)  *)
(***************************************************************************)
\* _providers_map.keys(), in insertion order
available_providers ==
    <<"deepseek", "openai", "anthropic", "openrouter", "bedrock", "ollama">>

get_available_providers == available_providers

ConfiguredKeyProviders == {"deepseek", "openai", "anthropic"}

AnthropicModels ==
    <<"claude-3-5-sonnet-latest", "claude-3-opus-latest", "claude-3-haiku-latest">>

\* sorted(MODEL_ID_MAP.keys())
BedrockModels ==
    <<"claude-3-haiku", "claude-3-opus", "claude-3.5-sonnet",
      "llama3-70b-instruct", "llama3-8b-instruct", "titan-text-express">>

OpenRouterKnownModels ==
    <<"openai/gpt-4o", "openai/gpt-3.5-turbo", "google/gemini-pro-1.5",
      "anthropic/claude-3.5-sonnet", "mistralai/mistral-7b-instruct",
      "meta-llama/llama-3-8b-instruct">>

ConstructEnvFirst(name, api_key, cfg, e, b) ==
    LET own == e.keys[provider_env_key_name(name)]
    IN CASE name \in ConfiguredKeyProviders ->
              LET k == Or(own, Or(api_key, cfg.defaults["api_key"]))
              IN IF Truthy(k) THEN [ok |-> TRUE, api_key |-> k, error |-> <<>>]
                 ELSE [ok |-> FALSE, api_key |-> None, error |-> <<name, " API key not configured">>]
         [] name = "openrouter" ->
              LET k == Or(own, api_key)
              IN IF Truthy(k) THEN [ok |-> TRUE, api_key |-> k, error |-> <<>>]
                 ELSE [ok |-> FALSE, api_key |-> None,
                       error |-> <<"OpenRouter API key not found in OPENROUTER_API_KEY environment variable">>]
         [] OTHER ->
              IF b.up THEN [ok |-> TRUE, api_key |-> None, error |-> <<>>]
              ELSE [ok |-> FALSE, api_key |-> None, error |-> <<name, " not reachable">>]

\* Provider.__init__(api_key): the credential captured, or the error raised.
\* cfg is the read_config() result taken by LLMProvider.__init__; b.up says
\* whether the AWS client / the Ollama daemon can be reached.
Construct(name, api_key, cfg, e, b) ==
    LET own == e.keys[provider_env_key_name(name)]
    IN CASE name \in ConfiguredKeyProviders ->
              LET k == Or(api_key, Or(own, cfg.defaults["api_key"]))
              IN IF Truthy(k) THEN [ok |-> TRUE, api_key |-> k, error |-> <<>>]
                 ELSE [ok |-> FALSE, api_key |-> None, error |-> <<name, " API key not configured">>]
         [] name = "openrouter" ->
              LET k == Or(api_key, own)
              IN IF Truthy(k) THEN [ok |-> TRUE, api_key |-> k, error |-> <<>>]
                 ELSE [ok |-> FALSE, api_key |-> None,
                       error |-> <<"OpenRouter API key not found in OPENROUTER_API_KEY environment variable">>]
         [] OTHER ->
              IF b.up THEN [ok |-> TRUE, api_key |-> None, error |-> <<>>]
              ELSE [ok |-> FALSE, api_key |-> None, error |-> <<name, " not reachable">>]

UnsupportedMessageBare(provider_name) ==
    <<"Unsupported provider: ", provider_name>>

\* llm_integration.py 17-19: the text of the error for an unregistered name
UnsupportedMessage(provider_name) ==
    <<"Unsupported provider: ", provider_name, ". Supported: ">> \o available_providers

\* get_provider(provider_name, api_key)
get_provider(provider_name, api_key, f, kr, e, fresh, b) ==
    LET rc == read_config(f, kr, e, fresh)
        c  == Construct(provider_name, api_key, rc.config, e, b)
    IN IF ~InList(provider_name, available_providers)
       THEN [ok |-> FALSE, constructed |-> FALSE, api_key |-> None, keyring |-> kr,
             error |-> UnsupportedMessage(provider_name)]
       ELSE IF c.ok
       THEN [ok |-> TRUE, constructed |-> TRUE, api_key |-> c.api_key, keyring |-> rc.keyring,
             error |-> <<>>]
       ELSE [ok |-> FALSE, constructed |-> FALSE, api_key |-> None, keyring |-> rc.keyring,
             error |-> <<"Error initializing ", provider_name, " provider: ">> \o c.error]

\* MODEL_ID_MAP.keys(), in insertion order
BedrockModelMap ==
    <<"claude-3.5-sonnet", "claude-3-opus", "claude-3-haiku",
      "llama3-8b-instruct", "llama3-70b-instruct", "titan-text-express">>

\* the ids of l that are not in known (the listings explored hold at most one
\* id, on which sorted() changes nothing)
Unknown(l, known) == SelectSeq(l, LAMBDA id : ~InList(id, known))

ListModelsAllEmpty(name, b) ==
    CASE name = "anthropic"  -> AnthropicModels
      [] name = "bedrock"    -> IF b.listing_ok THEN BedrockModels ELSE <<>>
      [] name = "openrouter" ->
            IF b.listing_ok THEN OpenRouterKnownModels \o Unknown(b.listing, OpenRouterKnownModels)
            ELSE <<>>
      [] OTHER               -> IF b.listing_ok THEN b.listing ELSE <<>>

\* provider.list_models(): b.listing is the id list the backend returns and
\* b.listing_ok whether the listing call succeeded
list_models(name, b) ==
    CASE name = "anthropic"  -> AnthropicModels
      [] name = "bedrock"    -> IF b.listing_ok THEN BedrockModels ELSE BedrockModelMap
      [] name = "openrouter" ->
            IF b.listing_ok THEN OpenRouterKnownModels \o Unknown(b.listing, OpenRouterKnownModels)
            ELSE <<>>
      [] OTHER               -> IF b.listing_ok THEN b.listing ELSE <<>>

\* a provider object whose list_models raises something other than a
\* ConfigError (none of the six does; a substituted provider can)
ListModelsRaises(b) == "raises" \in DOMAIN b /\ b.raises

GetAvailableModelsSwallowing(provider_name, f, kr, e, fresh, b) ==
    LET p == get_provider(provider_name, None, f, kr, e, fresh, b)
    IN IF p.ok /\ ~ListModelsRaises(b)
       THEN [ok |-> TRUE, models |-> list_models(provider_name, b), keyring |-> p.keyring,
             error |-> <<>>]
       ELSE [ok |-> TRUE, models |-> <<>>, keyring |-> p.keyring, error |-> <<>>]

\* get_available_models(provider_name): ConfigError from get_provider is
\* re-raised, any other exception gives the empty list
get_available_models(provider_name, f, kr, e, fresh, b) ==
    LET p == get_provider(provider_name, None, f, kr, e, fresh, b)
    IN IF ~p.ok
       THEN [ok |-> FALSE, models |-> <<>>, keyring |-> p.keyring, error |-> p.error]
       ELSE IF ListModelsRaises(b)
       THEN [ok |-> TRUE, models |-> <<>>, keyring |-> p.keyring, error |-> <<>>]
       ELSE [ok |-> TRUE, models |-> list_models(provider_name, b), keyring |-> p.keyring,
             error |-> <<>>]

\* What the validation endpoint answers: an HTTP status, or "unreachable"
\* where the request itself fails (no connection, no AWS credentials)
ValidationAnswers == {"200", "400", "401", "403", "unreachable"}

\* requests.Response.raise_for_status raises for the 4xx and 5xx statuses
RaiseForStatusRaises(answer) == answer \in {"400", "401", "403"}

\* the outcomes of validate_api_key: a value returned, an error raised
ValidateReturned(v) == [ok |-> TRUE, value |-> v, error |-> <<>>]

ValidateRaised(msg) == [ok |-> FALSE, value |-> "none", error |-> msg]

\* provider.validate_api_key() on a constructed provider: the value returned
\* ("True" or "False") or the error raised
ProviderValidate(name, answer) ==
    LET failed == answer = "unreachable" \/ RaiseForStatusRaises(answer)
    IN CASE name \in {"deepseek", "openai"} ->
              IF failed THEN ValidateRaised(<<"API key validation failed: ", answer>>)
              ELSE ValidateReturned("True")
         [] name = "openrouter" ->
              IF ~failed THEN ValidateReturned("True")
              ELSE IF answer = "401"
              THEN ValidateRaised(<<"OpenRouter API key validation failed: Invalid API Key (401)">>)
              ELSE ValidateRaised(<<"OpenRouter API key validation failed: ", answer>>)
         [] name = "bedrock" ->
              IF failed
              THEN ValidateRaised(<<"AWS Bedrock credential/permission validation failed: ", answer>>)
              ELSE ValidateReturned("True")
         [] name = "ollama" ->
              IF answer = "unreachable"
              THEN ValidateRaised(<<"Ollama server not reachable. Ensure Ollama is running.">>)
              ELSE IF failed THEN ValidateRaised(<<"Error connecting to Ollama server: ", answer>>)
              ELSE ValidateReturned("True")
         [] name = "anthropic" ->
              IF answer = "unreachable"
              THEN ValidateRaised(<<"API key validation failed: ", answer>>)
              ELSE ValidateReturned(IF answer = "400" THEN "True" ELSE "False")
         [] OTHER -> ValidateRaised(<<"Subclasses must implement validate_api_key">>)

\* llm_integration.validate_api_key(provider_name, api_key)
validate_api_key(provider_name, api_key, f, kr, e, fresh, b, answer) ==
    LET p == get_provider(provider_name, api_key, f, kr, e, fresh, b)
        v == ProviderValidate(provider_name, answer)
    IN IF ~p.ok
       THEN [ok |-> FALSE, value |-> "none", error |-> p.error, constructed |-> FALSE,
             keyring |-> p.keyring]
       ELSE [ok |-> v.ok, value |-> v.value, error |-> v.error, constructed |-> TRUE,
             keyring |-> p.keyring]

(***************************************************************************)
(* update_defaults                                                         *)
(***************************************************************************)
InvalidProviderMessage(provider) ==
    <<"Invalid provider: '", provider, "'. Available: ">> \o get_available_providers

InvalidModelMessage(model, provider, models) ==
    <<"Invalid model '", model, "' for provider '", provider, "'. Available: ">> \o models

ProviderNeverRejected(kwargs) == FALSE

\* the provider check of update_defaults: TRUE where it raises
ProviderRejected(kwargs) ==
    "provider" \in DOMAIN kwargs /\ ~InList(kwargs["provider"], get_available_providers)

ModelRejectedOnEmpty(model, available_models) == ~InList(model, available_models)

\* config_handler.py 132: the model check of update_defaults, TRUE where it raises
ModelRejected(model, available_models) ==
    available_models # <<>> /\ ~InList(model, available_models)

ApiKeyUpdatePlain(kwargs, k) ==
    IF "api_key" \notin DOMAIN kwargs THEN EmptyDict
    ELSE IF Truthy(kwargs["api_key"])
         THEN [x \in {"api_key"} |-> kwargs["api_key"]]
         ELSE [x \in {"api_key"} |-> None]

\* the api_key entry of updates_to_apply
ApiKeyUpdate(kwargs, k) ==
    IF "api_key" \notin DOMAIN kwargs THEN EmptyDict
    ELSE IF Truthy(kwargs["api_key"])
         THEN [x \in {"api_key"} |-> Encrypt(k, kwargs["api_key"])]
         ELSE [x \in {"api_key"} |-> None]

ModelCheckedAlways(kwargs) == TRUE

\* config_handler.py 125: the model is validated only where the call passes one
ModelChecked(kwargs) == "model" \in DOMAIN kwargs

\* the outcome of update_defaults with keyword arguments kwargs on settings file f, keyring kr
\* and environment e; fresh is the key Fernet.generate_key() would return
\* and b the backend's answer to the model listing
update_defaults(kwargs, f, kr, e, fresh, b) ==
    LET rc == read_config(f, kr, e, fresh)
        current_defaults == rc.config.defaults
        provider_to_validate == Get(kwargs, "provider", current_defaults["provider"])
        model == Get(kwargs, "model", current_defaults["model"])
        am == get_available_models(provider_to_validate, f, rc.keyring, e, fresh, b)
        k  == get_fernet(rc.keyring, fresh)
        plain == [x \in DOMAIN kwargs \ {"api_key"} |-> kwargs[x]]
        updates_to_apply == Merge(plain, ApiKeyUpdate(kwargs, k))
        merged_defaults == Merge(current_defaults, updates_to_apply)
        config_to_write ==
            IF rc.config.presets # EmptyDict
            THEN [defaults |-> merged_defaults, presets |-> rc.config.presets]
            ELSE [defaults |-> merged_defaults]
    IN IF ProviderRejected(kwargs)
       THEN [ok |-> FALSE, file |-> f, keyring |-> rc.keyring,
             error |-> InvalidProviderMessage(kwargs["provider"])]
       ELSE IF ModelChecked(kwargs) /\ ~am.ok
       THEN [ok |-> FALSE, file |-> f, keyring |-> am.keyring, error |-> am.error]
       ELSE IF ModelChecked(kwargs) /\ ModelRejected(model, am.models)
       THEN [ok |-> FALSE, file |-> f, keyring |-> am.keyring,
             error |-> InvalidModelMessage(model, provider_to_validate, am.models)]
       ELSE [ok |-> TRUE, file |-> write_config(config_to_write, k), keyring |-> k,
             error |-> <<>>]

(***************************************************************************)
(* Inputs                                                                  *)
(***************************************************************************)
Secrets == {<<"A">>}

EnvSecrets == {<<"B">>, <<"G">>}

ArgProviders == {"deepseek", "ollama", "unknown-vendor"}

ArgModels == {"deepseek-chat", "llama3"}

Listings == {<<>>, <<"deepseek-chat">>}

\* the answers of a backend: whether it can be reached at construction,
\* whether the listing call succeeds and the ids it lists
Backends ==
    {b \in [up : BOOLEAN, listing_ok : BOOLEAN, listing : Listings] :
        ~b.listing_ok => b.listing = <<>>}

\* the keyword arguments of update_defaults: "" and Absent mark an argument
\* that is not passed
Absent == <<"absent">>

KwargsOf(p, m, a) ==
    [k \in (IF p = "" THEN {} ELSE {"provider"}) \cup (IF m = "" THEN {} ELSE {"model"})
            \cup (IF a = Absent THEN {} ELSE {"api_key"}) |->
        IF k = "provider" THEN p ELSE IF k = "model" THEN m ELSE a]

Kwargs ==
    {KwargsOf(p, m, a) : p \in ArgProviders \cup {""}, m \in ArgModels \cup {""},
                         a \in Secrets \cup {None, Absent}}

NoEnv == [provider |-> "", model |-> "", keys |-> [n \in KeyEnvNames |-> None]]

EnvOf(p, m, generic, deepseek) ==
    [provider |-> p, model |-> m,
     keys |-> [n \in KeyEnvNames |->
                 IF n = "IACGENIUS_API_KEY" THEN generic
                 ELSE IF n = "DEEPSEEK_API_KEY" THEN deepseek ELSE None]]

\* the process environments explored: IACGENIUS_PROVIDER, IACGENIUS_MODEL,
\* IACGENIUS_API_KEY and DEEPSEEK_API_KEY
Environments ==
    {NoEnv,
     EnvOf("", "", <<"G">>, None),
     EnvOf("", "", None, <<"B">>),
     EnvOf("", "", <<"G">>, <<"B">>),
     EnvOf("openai", "gpt-4", None, None)}

\* no call of generate_infrastructure / get_provider made yet
NoGen == [called |-> FALSE]

NoCall == [op |-> "none", kwargs |-> EmptyDict, ok |-> TRUE, error |-> <<>>]

\* cli.py: the state of a command before it runs
NoFiles == [p \in {} |-> <<>>]

CliIdle ==
    [pc |-> "start", cmd |-> "", description |-> <<>>, infra_type |-> "", provider |-> "",
     llm_provider |-> "", model |-> "", api_key |-> None, region |-> "", tags |-> <<>>,
     temperature |-> "", max_tokens |-> 0, requested |-> <<>>, output |-> <<>>, generated_code |-> None, shown |-> <<>>,
     files |-> NoFiles, error |-> <<>>, first |-> NoGen, second |-> NoGen]

\* streamlit_app.py 19-29: the session state of a fresh page
NoCode == [type |-> "", code |-> None]

WebIdle == [generated_code |-> NoCode, generation_history |-> <<>>, error |-> <<>>,
            op |-> "none", response |-> None]

(***************************************************************************)
(* The configuration store as a state machine                              *)
(***************************************************************************)
InitConfig ==
    /\ keyring = NoKey
    /\ file = NoFile
    /\ env \in Environments
    /\ last = NoCall
    /\ gen = NoGen /\ gp = NoGen
    /\ cli = CliIdle
    /\ st = WebIdle
    /\ rd = NoGen

\* one call of update_defaults; the key generator and the backend are only
\* consulted where the call reaches them
UpdateDefaults ==
    \E kw \in Kwargs :
    \E fresh \in (IF keyring = NoKey THEN Keys ELSE {keyring}) :
    \E b \in (IF "model" \in DOMAIN kw THEN Backends ELSE {CHOOSE x \in Backends : x.up}) :
        /\ \E r \in {update_defaults(kw, file, keyring, env, fresh, b)} :
              /\ file' = r.file
              /\ keyring' = r.keyring
              /\ last' = [op |-> "update_defaults", kwargs |-> kw, ok |-> r.ok,
                          error |-> r.error]
        /\ UNCHANGED <<env, gen, gp, cli, st, rd>>

NextConfig == UpdateDefaults

SpecConfig == InitConfig /\ [][NextConfig]_vars

(***************************************************************************)
(* Prompt building and generation (infrastructure.py, generator.py)        *)
(***************************************************************************)
Guidelines == "guidelines"

\* tags.split('\n') with each line stripped, the blank ones dropped: tags
\* is the sequence of its lines, "" a blank line
RECURSIVE TagLines(_)
TagLines(tags) ==
    IF tags = <<>> THEN <<>>
    ELSE IF Head(tags) = "" THEN TagLines(Tail(tags))
    ELSE <<"- ", Head(tags)>> \o TagLines(Tail(tags))

CreatePromptTemplateReplacing(infra_type, description, cloud_provider, region, tags, target_versions) ==
    LET cloud_context ==
            <<"Cloud Environment Context: - Provider: ", cloud_provider>>
            \o (IF region # "" THEN <<"- Region: ", region>> ELSE <<>>)
            \o (IF TagLines(tags) # <<>> THEN <<"- Resource Tags: ">> \o TagLines(tags) ELSE <<>>)
    IN cloud_context
       \o <<"focusing on ", infra_type, "- Infrastructure Description: ">> \o description
       \o <<Guidelines>>
       \o (IF target_versions # "" THEN <<"Target Version Constraints: ", target_versions>>
           ELSE <<"Provide the infrastructure code with detailed comments and proper formatting.">>)
       \o <<"Include a brief summary of security considerations and available configuration options.">>

\* create_prompt_template(infra_type, description, cloud_provider, region,
\* tags, target_versions): the prompt as the sequence of its parts; the
\* description is a sequence of parts too, "" is an absent region or
\* target_versions and <<>> absent tags
create_prompt_template(infra_type, description, cloud_provider, region, tags, target_versions) ==
    LET cloud_context ==
            <<"Cloud Environment Context: - Provider: ", cloud_provider>>
            \o (IF region # "" THEN <<"- Region: ", region>> ELSE <<>>)
            \o (IF TagLines(tags) # <<>> THEN <<"- Resource Tags: ">> \o TagLines(tags) ELSE <<>>)
        version_instructions ==
            IF target_versions # "" THEN <<"Target Version Constraints: ", target_versions>>
            ELSE <<>>
    IN cloud_context
       \o <<"focusing on ", infra_type, "- Infrastructure Description: ">> \o description
       \o <<Guidelines>>
       \o <<"Provide the infrastructure code with detailed comments and proper formatting.">>
       \o version_instructions
       \o <<"Include a brief summary of security considerations and available configuration options.">>

\* str.strip() on a text given as the sequence of its characters
Whitespace == {" ", "NL", "TAB"}

RECURSIVE LStrip(_)
LStrip(t) == IF t # <<>> /\ Head(t) \in Whitespace THEN LStrip(Tail(t)) ELSE t

RECURSIVE RStrip(_)
RStrip(t) == IF t # <<>> /\ t[Len(t)] \in Whitespace THEN RStrip(SubSeq(t, 1, Len(t) - 1)) ELSE t

StripLeft(t) == LStrip(t)

Strip(t) == RStrip(LStrip(t))

ProvidersRequiringKeysAll ==
    {"openai", "anthropic", "deepseek", "openrouter", "bedrock", "ollama"}

\* generator.py 37
providers_requiring_keys == {"openai", "anthropic", "deepseek", "openrouter"}

\* the credential a constructed provider puts into the requests it sends: the
\* Authorization / x-api-key header of the four keyed providers; Ollama
\* sends a Content-Type header only and Bedrock signs with the ambient AWS
\* credentials of boto3
RequestCredential(name, api_key) ==
    IF name \in {"deepseek", "openai", "anthropic", "openrouter"} THEN api_key ELSE None

\* AWSBedrockProvider.get_bedrock_model_id and the vendor prefix of the id:
\* "" where the name is unknown and get_bedrock_model_id raises
BedrockFamily(model) ==
    CASE model \in {"claude-3.5-sonnet", "claude-3-opus", "claude-3-haiku"} -> "anthropic"
      [] model \in {"llama3-8b-instruct", "llama3-70b-instruct"}            -> "meta"
      [] model = "titan-text-express"                                       -> "amazon"
      [] OTHER                                                              -> ""

\* A backend answer: status "error" for a failed call or a non-2xx status,
\* "ok" for a 2xx answer whose completion field (choices[0].message.content,
\* content[0].text, message.content, generation, results[0].outputText) is
\* "text", is "null", is "missing" from its container, or whose container is
\* missing or empty ("no-container").
ResponseOf(b) ==
    IF b.gen_ok THEN [status |-> "ok", field |-> "text", text |-> b.text]
    ELSE [status |-> "error", field |-> "text", text |-> <<>>]

Returned(v) == [ok |-> TRUE, text |-> v, error |-> <<>>]

Raised(msg) == [ok |-> FALSE, text |-> <<>>, error |-> msg]

\* provider.generate(prompt, model, ...): the value returned (None where the
\* method returns None) or the error raised
Generate(name, model, resp) ==
    LET failed == Raised(<<name, " generation failed">>)
        checked == IF resp.field = "text" THEN Returned(resp.text) ELSE failed
        indexed == IF resp.field = "text" THEN Returned(resp.text)
                   ELSE IF resp.field = "null" THEN Returned(None)
                   ELSE failed
    IN IF name = "bedrock" /\ BedrockFamily(model) = ""
       THEN Raised(<<"Unknown or unsupported Bedrock model name: ", model>>)
       ELSE IF resp.status # "ok" THEN failed
       ELSE CASE name \in {"openai", "openrouter"} -> checked
              [] name = "ollama" ->
                    IF resp.field = "text" THEN Returned(Strip(resp.text)) ELSE failed
              [] name \in {"deepseek", "anthropic"} -> indexed
              [] name = "bedrock" /\ BedrockFamily(model) = "anthropic" -> indexed
              [] name = "bedrock" /\ BedrockFamily(model) = "meta" ->
                    IF resp.field = "text" THEN Returned(resp.text) ELSE Returned(None)
              [] name = "bedrock" /\ BedrockFamily(model) = "amazon" ->
                    IF resp.field = "text" THEN Returned(resp.text)
                    ELSE IF resp.field = "no-container" THEN failed
                    ELSE Returned(None)
              [] OTHER -> failed

\* provider.generate for a backend b: b.gen_ok says whether the backend call
\* returns a completion, b.text is the completion
ProviderGenerate(name, model, b) == Generate(name, model, ResponseOf(b))

KeyRequiredMessageAnonymous(provider) ==
    <<"API key is required but not found in arguments, config, or environment variables.">>

\* generator.py 39: the text of the error raised when no secret is resolved
KeyRequiredMessage(provider) ==
    <<"API key for provider '", provider,
      "' is required but not found in arguments, config, or environment variables.">>

NoResult == [description |-> <<>>, type |-> "", cloud_provider |-> "", llm_provider |-> "",
             model |-> "", code |-> <<>>]

\* generate_infrastructure(...): a.llm_provider, a.model and a.cloud_provider
\* are "" where the argument is None, a.api_key is None where it is not
\* passed.  handed is the api_key passed on to get_provider and captured
\* the credential the constructed provider holds.
generate_infrastructure(a, f, kr, e, fresh, b) ==
    LET rc == read_config(f, kr, e, fresh)
        defaults == rc.config.defaults
        final_llm_provider == IF a.llm_provider # "" THEN a.llm_provider ELSE defaults["provider"]
        model0 == IF a.model # "" THEN a.model ELSE defaults["model"]
        final_model == IF final_llm_provider = "deepseek" /\ model0 = "" THEN "deepseek-chat" ELSE model0
        final_cloud_provider == IF a.cloud_provider # "" THEN a.cloud_provider ELSE "AWS"
        final_api_key == IF a.api_key # None THEN a.api_key ELSE defaults["api_key"]
        prompt == create_prompt_template(a.iac_type, a.description, final_cloud_provider,
                                         a.region, a.tags, a.target_versions)
        p == get_provider(final_llm_provider, final_api_key, f, rc.keyring, e, fresh, b)
        g == ProviderGenerate(final_llm_provider, final_model, b)
        base == [ok |-> FALSE, error |-> <<>>, result |-> NoResult, dispatched |-> FALSE,
                 constructed |-> FALSE, handed |-> None, captured |-> None, sent |-> None,
                 prompt |-> <<>>, provider |-> final_llm_provider, model |-> final_model,
                 keyring |-> rc.keyring]
    IN IF final_llm_provider \in providers_requiring_keys /\ ~Truthy(final_api_key)
       THEN [base EXCEPT !.error = KeyRequiredMessage(final_llm_provider)]
       ELSE IF ~p.ok
       THEN [base EXCEPT !.error = <<"Generation failed using ", final_llm_provider, ": ">> \o p.error,
                         !.dispatched = TRUE, !.handed = final_api_key, !.keyring = p.keyring]
       ELSE IF ~g.ok \/ g.text = None
       THEN [base EXCEPT !.error = <<"Generation failed using ", final_llm_provider, ": ">> \o g.error,
                         !.dispatched = TRUE, !.handed = final_api_key, !.keyring = p.keyring,
                         !.constructed = TRUE, !.captured = p.api_key, !.prompt = prompt,
                         !.sent = RequestCredential(final_llm_provider, p.api_key)]
       ELSE [base EXCEPT !.ok = TRUE, !.dispatched = TRUE, !.handed = final_api_key,
                         !.keyring = p.keyring, !.constructed = TRUE, !.captured = p.api_key,
                         !.prompt = prompt,
                         !.sent = RequestCredential(final_llm_provider, p.api_key),
                         !.result = [description |-> a.description, type |-> a.iac_type,
                                     cloud_provider |-> final_cloud_provider,
                                     llm_provider |-> final_llm_provider,
                                     model |-> final_model, code |-> Strip(g.text)]]

(***************************************************************************)
(* One call of generate_infrastructure or get_provider on a configured     *)
(* installation                                                            *)
(***************************************************************************)
\* the settings file update_defaults leaves for a provider, a model and a
\* secret (None for no secret) under keyring key k
StoredFile(provider, model, secret, k) ==
    write_config([defaults |-> [provider |-> provider, model |-> model,
                                api_key |-> IF secret = None THEN None ELSE Encrypt(k, secret)]], k)

Installations ==
    {[keyring |-> NoKey, file |-> NoFile],
     [keyring |-> "k1", file |-> StoredFile("deepseek", "deepseek-chat", <<"A">>, "k1")],
     [keyring |-> "k1", file |-> StoredFile("deepseek", "deepseek-chat", None, "k1")],
     [keyring |-> "k1", file |-> StoredFile("openai", "gpt-4", <<"A">>, "k1")],
     [keyring |-> "k1", file |-> StoredFile("ollama", "llama3", None, "k1")]}

EnvKeysOf(p, generic, deepseek, openai) ==
    [provider |-> p, model |-> "",
     keys |-> [n \in KeyEnvNames |->
                 IF n = "IACGENIUS_API_KEY" THEN generic
                 ELSE IF n = "DEEPSEEK_API_KEY" THEN deepseek
                 ELSE IF n = "OPENAI_API_KEY" THEN openai ELSE None]]

\* an environment that sets OPENROUTER_API_KEY and perhaps IACGENIUS_API_KEY
EnvOpenRouter(generic) ==
    [provider |-> "", model |-> "",
     keys |-> [n \in KeyEnvNames |->
                 IF n = "IACGENIUS_API_KEY" THEN generic
                 ELSE IF n = "OPENROUTER_API_KEY" THEN <<"R">> ELSE None]]

GenEnvironments ==
    {EnvKeysOf(p, g, d, o) : p \in {"", "openai"}, g \in {None, <<"G">>},
                             d \in {None, <<"B">>}, o \in {None, <<"O">>}}
    \cup {EnvOpenRouter(None), EnvOpenRouter(<<"G">>)}

GenProviders ==
    {"", "deepseek", "openai", "anthropic", "openrouter", "ollama", "bedrock", "unknown-vendor"}

GenArgs ==
    [description : {<<"Create an S3 bucket with versioning">>}, iac_type : {"Terraform"},
     cloud_provider : {"", "AWS"}, llm_provider : GenProviders, model : {"", "gpt-4"},
     api_key : {None, <<>>, <<"C">>}, region : {""}, tags : {<<>>}, target_versions : {""}]

Texts == {<<"resource">>, <<" ", "resource", " ">>, <<" ">>, <<"NL", "a", " ", "b", "TAB">>}

GenBackends == [up : BOOLEAN, gen_ok : BOOLEAN, text : Texts]

InitGen ==
    /\ \E i \in Installations : keyring = i.keyring /\ file = i.file
    /\ env \in GenEnvironments
    /\ last = NoCall
    /\ gen = NoGen
    /\ gp = NoGen
    /\ cli = CliIdle
    /\ st = WebIdle
    /\ rd = NoGen

GenerateInfrastructure ==
    /\ ~gen.called /\ ~gp.called
    /\ \E a \in GenArgs, b \in GenBackends :
       \E fresh \in (IF keyring = NoKey THEN Keys ELSE {keyring}) :
         LET r == generate_infrastructure(a, file, keyring, env, fresh, b)
         IN /\ gen' = [called |-> TRUE, args |-> a, backend |-> b, out |-> r,
                       defaults |-> read_config(file, keyring, env, fresh).config.defaults]
            /\ keyring' = r.keyring
    /\ UNCHANGED <<file, env, last, gp, cli, st, rd>>

GetProvider ==
    /\ ~gen.called /\ ~gp.called
    /\ \E name \in (GenProviders \ {""}) \cup {"anthropic", "openrouter"},
          k \in {None, <<"C">>}, up \in BOOLEAN :
       \E fresh \in (IF keyring = NoKey THEN Keys ELSE {keyring}) :
         LET r == get_provider(name, k, file, keyring, env, fresh, [up |-> up])
         IN /\ gp' = [called |-> TRUE, name |-> name, api_key |-> k, out |-> r,
                      listed |-> get_available_providers,
                      defaults |-> read_config(file, keyring, env, fresh).config.defaults]
            /\ keyring' = r.keyring
    /\ UNCHANGED <<file, env, last, gen, cli, st, rd>>

NextGen == GenerateInfrastructure \/ GetProvider

SpecGen == InitGen /\ [][NextGen]_vars

(***************************************************************************)
(* Reading the settings: one call of read_config or get_default on an      *)
(* installation that may be damaged                                        *)
(***************************************************************************)
\* a settings file written under key k whose api_key field holds `field`
FileWithField(provider, model, field, k) ==
    [exists |-> TRUE, key |-> k,
     defaults |-> [provider |-> provider, model |-> model, api_key |-> field],
     presets |-> EmptyDict]

\* installations: intact, key lost or replaced, credential store down, and
\* an api_key field that is foreign ciphertext, truncated or plain text
ReadInstallations ==
    {[keyring |-> kr, file |-> NoFile] : kr \in {NoKey, "k1", KeyStoreDown}}
    \cup {[keyring |-> kr, file |-> StoredFile("openai", "gpt-4", <<"A">>, "k1")] :
             kr \in {"k1", "k2", NoKey, KeyStoreDown}}
    \cup {[keyring |-> "k1", file |-> FileWithField("openai", "gpt-4", field, "k1")] :
             field \in {Encrypt("k2", <<"A">>), <<FernetTag>>, <<"A">>, <<FernetTag, "k1">>}}

InitRead ==
    /\ \E i \in ReadInstallations : keyring = i.keyring /\ file = i.file
    /\ env \in Environments
    /\ last = NoCall
    /\ gen = NoGen /\ gp = NoGen
    /\ cli = CliIdle
    /\ st = WebIdle
    /\ rd = NoGen

ReadConfig ==
    /\ ~rd.called
    /\ \E fresh \in (IF keyring = NoKey THEN Keys ELSE {keyring}) :
         LET r == read_config(file, keyring, env, fresh)
         IN /\ rd' = [called |-> TRUE, op |-> "read_config", key |-> "", out |-> r,
                      before |-> keyring]
            /\ keyring' = r.keyring
    /\ UNCHANGED <<file, env, last, gen, gp, cli, st>>

GetDefault ==
    /\ ~rd.called
    /\ \E key \in {"provider", "model"} :
       \E fresh \in (IF keyring = NoKey THEN Keys ELSE {keyring}) :
         LET r == read_config(file, keyring, env, fresh)
         IN /\ rd' = [called |-> TRUE, op |-> "get_default", key |-> key, out |-> r,
                      before |-> keyring,
                      value |-> get_default(key, file, keyring, env, fresh)]
            /\ keyring' = r.keyring
    /\ UNCHANGED <<file, env, last, gen, gp, cli, st>>

NextRead == ReadConfig \/ GetDefault

SpecRead == InitRead /\ [][NextRead]_vars

(***************************************************************************)
(* Listing models: one call of list_models on a constructed provider, or   *)
(* of get_available_models                                                 *)
(***************************************************************************)
ListBackends ==
    {b \in [up : BOOLEAN, listing_ok : BOOLEAN, listing : Listings \cup {<<"openai/gpt-4o">>},
            raises : BOOLEAN] :
        /\ ~b.listing_ok => b.listing = <<>>
        /\ b.raises => (b.listing_ok /\ b.listing = <<>>)}

ListInstallations ==
    {[keyring |-> NoKey, file |-> NoFile],
     [keyring |-> "k1", file |-> StoredFile("deepseek", "deepseek-chat", <<"A">>, "k1")],
     [keyring |-> "k1", file |-> StoredFile("ollama", "llama3", None, "k1")]}

ListEnvironments ==
    {NoEnv, EnvOf("", "", None, <<"B">>), EnvOpenRouter(None), EnvOf("openai", "gpt-4", None, None)}

InitList ==
    /\ \E i \in ListInstallations : keyring = i.keyring /\ file = i.file
    /\ env \in ListEnvironments
    /\ last = NoCall
    /\ gen = NoGen /\ gp = NoGen
    /\ cli = CliIdle
    /\ st = WebIdle
    /\ rd = NoGen

\* provider.list_models() on a provider that get_provider constructed
ListModels ==
    /\ ~rd.called
    /\ \E name \in {available_providers[i] : i \in 1..Len(available_providers)},
          b \in {x \in ListBackends : ~x.raises} :
       \E fresh \in (IF keyring = NoKey THEN Keys ELSE {keyring}) :
         LET p == get_provider(name, None, file, keyring, env, fresh, b)
         IN /\ p.ok
            /\ rd' = [called |-> TRUE, op |-> "list_models", name |-> name, backend |-> b,
                      out |-> [ok |-> TRUE, models |-> list_models(name, b)]]
            /\ keyring' = p.keyring
    /\ UNCHANGED <<file, env, last, gen, gp, cli, st>>

GetAvailableModels ==
    /\ ~rd.called
    /\ \E name \in {available_providers[i] : i \in 1..Len(available_providers)},
          b \in ListBackends :
       \E fresh \in (IF keyring = NoKey THEN Keys ELSE {keyring}) :
         LET r == get_available_models(name, file, keyring, env, fresh, b)
         IN /\ rd' = [called |-> TRUE, op |-> "get_available_models", name |-> name,
                      backend |-> b, out |-> [ok |-> r.ok, models |-> r.models],
                      error |-> r.error,
                      constructed |-> get_provider(name, None, file, keyring, env, fresh, b).ok]
            /\ keyring' = r.keyring
    /\ UNCHANGED <<file, env, last, gen, gp, cli, st>>

\* update_defaults with a model, and perhaps a provider and a secret
UpdateDefaultsModel ==
    /\ ~rd.called
    /\ \E p \in {"", "deepseek", "ollama", "bedrock"}, m \in ArgModels, a \in {Absent, <<"A">>},
          b \in ListBackends :
       \E fresh \in (IF keyring = NoKey THEN Keys ELSE {keyring}) :
         LET kw == KwargsOf(p, m, a)
             r == update_defaults(kw, file, keyring, env, fresh, b)
             effective == Get(kw, "provider",
                              read_config(file, keyring, env, fresh).config.defaults["provider"])
             am == get_available_models(effective, file, keyring, env, fresh, b)
         IN /\ rd' = [called |-> TRUE, op |-> "update_defaults", kwargs |-> kw, backend |-> b,
                      out |-> [ok |-> r.ok, error |-> r.error], before |-> file,
                      effective |-> effective,
                      listing |-> [ok |-> am.ok, models |-> am.models]]
            /\ file' = r.file
            /\ keyring' = r.keyring
    /\ UNCHANGED <<env, last, gen, gp, cli, st>>

\* validate_api_key(provider_name, api_key) with the answer of the backend
ValidateApiKey ==
    /\ ~rd.called
    /\ \E name \in {available_providers[i] : i \in 1..Len(available_providers)},
          api_key \in {None, <<"A">>}, answer \in ValidationAnswers, up \in BOOLEAN :
       \E fresh \in (IF keyring = NoKey THEN Keys ELSE {keyring}) :
         LET r == validate_api_key(name, api_key, file, keyring, env, fresh, [up |-> up], answer)
         IN /\ rd' = [called |-> TRUE, op |-> "validate_api_key", name |-> name,
                      api_key |-> api_key, answer |-> answer,
                      out |-> [ok |-> r.ok, value |-> r.value, error |-> r.error],
                      constructed |-> r.constructed]
            /\ keyring' = r.keyring
    /\ UNCHANGED <<file, env, last, gen, gp, cli, st>>

\* update_defaults with a provider, perhaps a secret, and no model; listing
\* is what the provider stored by the call lists afterwards
UpdateDefaultsProvider ==
    /\ ~rd.called
    /\ \E p \in {"deepseek", "ollama", "bedrock", "unknown-vendor"}, a \in {Absent, <<"A">>},
          b \in ListBackends :
       \E fresh \in (IF keyring = NoKey THEN Keys ELSE {keyring}) :
         LET kw == KwargsOf(p, "", a)
             r == update_defaults(kw, file, keyring, env, fresh, b)
             am == get_available_models(p, file', keyring', env, keyring', b)
         IN /\ file' = r.file
            /\ keyring' = r.keyring
            /\ rd' = [called |-> TRUE, op |-> "update_defaults_provider", kwargs |-> kw,
                      backend |-> b, out |-> [ok |-> r.ok, error |-> r.error], before |-> file,
                      resolved |-> read_config(file, keyring, env, fresh).config.defaults,
                      listing |-> [ok |-> am.ok, models |-> am.models]]
    /\ UNCHANGED <<env, last, gen, gp, cli, st>>

\* the backend answers to a generation request
Responses ==
    [status : {"error"}, field : {"text"}, text : {<<>>}]
    \cup [status : {"ok"}, field : {"no-container", "missing", "null"}, text : {<<>>}]
    \cup [status : {"ok"}, field : {"text"}, text : {<<>>, <<" ", "resource", "NL">>}]

GenerateModels == {"gpt-4", "claude-3-opus", "llama3-8b-instruct", "titan-text-express"}

\* provider.generate(prompt, model) on a provider that get_provider constructed
ProviderGenerateCall ==
    /\ ~rd.called
    /\ \E name \in {available_providers[i] : i \in 1..Len(available_providers)},
          model \in GenerateModels, resp \in Responses, up \in BOOLEAN :
       \E fresh \in (IF keyring = NoKey THEN Keys ELSE {keyring}) :
         LET p == get_provider(name, None, file, keyring, env, fresh, [up |-> up])
         IN /\ p.ok
            /\ rd' = [called |-> TRUE, op |-> "generate", name |-> name, model |-> model,
                      response |-> resp, out |-> Generate(name, model, resp)]
            /\ keyring' = p.keyring
    /\ UNCHANGED <<file, env, last, gen, gp, cli, st>>

NextList ==
    \/ ListModels \/ GetAvailableModels \/ UpdateDefaultsModel \/ ProviderGenerateCall
    \/ ValidateApiKey \/ UpdateDefaultsProvider

SpecList == InitList /\ [][NextList]_vars

(***************************************************************************)
(* The command-line session: `generate` and `quick` (cli.py)               *)
(***************************************************************************)
RecognizedExtensions == {".tf", ".yaml", ".yml", ".json", ".rego"}

\* INFRASTRUCTURE_FILE_EXTENSIONS.get(infra_type, ".txt")
get_file_extension(infra_type) ==
    CASE infra_type = "Terraform"                    -> ".tf"
      [] infra_type = "CloudFormation"               -> ".yaml"
      [] infra_type = "Kubernetes (Manifests)"       -> ".yaml"
      [] infra_type = "Helm Chart"                   -> ".yaml"
      [] infra_type = "Docker"                       -> "Dockerfile"
      [] infra_type = "CI/CD Pipeline"               -> ".yaml"
      [] infra_type = "OPA Policy"                   -> ".rego"
      [] infra_type = "Azure Resource Manager (ARM)" -> ".json"
      [] OTHER                                       -> ".txt"

\* a path is the sequence of its parts, a trailing extension being one part:
\* output.endswith(ext) for one of the recognized extensions
HasRecognizedExtension(path) == path # <<>> /\ path[Len(path)] \in RecognizedExtensions

OutputPathAlwaysAppend(path, infra_type) ==
    Append(path, get_file_extension(infra_type))

\* the file name the save step writes to
OutputPath(path, infra_type) ==
    IF HasRecognizedExtension(path) THEN path ELSE Append(path, get_file_extension(infra_type))

FeedbackPromptWithoutCode(infra_type, description, provider, region, tags, generated_code, feedback) ==
    create_prompt_template(infra_type, description, provider, region, tags, "")
    \o <<"User feedback for modifications: ">> \o feedback
    \o <<"Please provide an updated version of the code that addresses this feedback.">>

\* the prompt of the modify step
feedback_prompt(infra_type, description, provider, region, tags, generated_code, feedback) ==
    create_prompt_template(infra_type, description, provider, region, tags, "")
    \o <<"Previously generated code: ">> \o generated_code
    \o <<"User feedback for modifications: ">> \o feedback
    \o <<"Please provide an updated version of the code that addresses this feedback.">>

WriteFile(files, path, content) == Merge(files, [p \in {path} |-> content])

ErrorEcho(error) == <<"Error generating infrastructure: ">> \o error

CliAfterGenerateEager(c, r, output) ==
    LET path == OutputPath(output, c.infra_type)
        code == IF r.ok THEN r.result.code ELSE <<>>
        written == IF output = <<>> THEN [c EXCEPT !.shown = Append(@, code)]
                   ELSE [c EXCEPT !.output = path, !.files = WriteFile(@, path, code)]
    IN IF ~r.ok THEN [written EXCEPT !.pc = "done", !.error = ErrorEcho(r.error)]
       ELSE [written EXCEPT !.pc = "menu", !.generated_code = code]

\* cli.py 154-203: what the command does with the outcome r of
\* generate_infrastructure, output being the --output option
CliAfterGenerate(c, r, output) ==
    LET path == OutputPath(output, c.infra_type)
    IN IF ~r.ok
       THEN [c EXCEPT !.pc = "done", !.error = ErrorEcho(r.error)]
       ELSE IF output = <<>>
       THEN [c EXCEPT !.pc = "menu", !.generated_code = r.result.code,
                      !.shown = Append(@, r.result.code)]
       ELSE [c EXCEPT !.pc = "menu", !.generated_code = r.result.code, !.output = path,
                      !.files = WriteFile(@, path, r.result.code)]

\* the command up to the menu prompt: cli.py 75-203 (generate), 349-421
\* (quick).  With --advanced the user picks a provider (chosen, "" for a
\* number out of range) and, where the provider lists models, a model
\* (model_choice, 0 for a number out of range).
CliRun(cmd, description, infra_type, provider, output, advanced, chosen, model_choice, region, tags, temperature, max_tokens, fresh, b) ==
    /\ cli.pc = "start"
    /\ \E rc \in {read_config(file, keyring, env, fresh)} :
       \E am \in {get_available_models(IF advanced /\ chosen # "" THEN chosen
                                       ELSE rc.config.defaults["provider"],
                                       file, rc.keyring, env, fresh, b)} :
         LET default_provider == rc.config.defaults["provider"]
             default_model ==
                 IF default_provider = "deepseek" /\ rc.config.defaults["model"] = ""
                 THEN (IF cmd = "quick" THEN "deepseek-coder-33b-instruct" ELSE "deepseek-chat")
                 ELSE rc.config.defaults["model"]
             llm_provider == IF advanced /\ chosen # "" THEN chosen ELSE default_provider
             model == IF advanced /\ am.ok /\ model_choice \in 1..Len(am.models)
                      THEN am.models[model_choice] ELSE default_model
             api_key == env.keys[provider_env_key_name(llm_provider)]
             a == [description |-> description, iac_type |-> infra_type,
                   cloud_provider |-> provider, llm_provider |-> llm_provider, model |-> model,
                   api_key |-> api_key, temperature |-> temperature,
                   max_tokens |-> max_tokens, region |-> region, tags |-> tags,
                   target_versions |-> ""]
             started == [cli EXCEPT !.cmd = cmd, !.description = description,
                                    !.infra_type = infra_type, !.provider = provider,
                                    !.llm_provider = llm_provider, !.model = model,
                                    !.api_key = api_key, !.region = region, !.tags = tags,
                                    !.temperature = temperature, !.max_tokens = max_tokens,
                                    !.requested = output]
         IN \E r \in {generate_infrastructure(a, file, rc.keyring, env, fresh, b)} :
              /\ keyring' = IF advanced /\ ~am.ok THEN am.keyring ELSE r.keyring
              /\ cli' = IF advanced /\ ~am.ok
                        THEN [started EXCEPT !.pc = "done", !.error = ErrorEcho(am.error)]
                        ELSE CliAfterGenerate([started EXCEPT !.first = [called |-> TRUE,
                                                                         args |-> a, out |-> r]],
                                              r, output)
    /\ UNCHANGED <<file, env, last, gen, gp, st, rd>>

\* menu choice 1: save the code to a file
CliSave(output_path) ==
    /\ cli.pc = "menu"
    /\ cli' = IF cli.output # <<>>
              THEN [cli EXCEPT !.pc = "done"]
              ELSE [cli EXCEPT !.pc = "done",
                               !.files = WriteFile(@, OutputPath(output_path, cli.infra_type),
                                                   cli.generated_code)]
    /\ UNCHANGED <<keyring, file, env, last, gen, gp, st, rd>>

CliAfterModifyEager(c, r, save, output_path) ==
    LET updated_code == IF r.ok THEN r.result.code ELSE <<>>
        shown == [c EXCEPT !.pc = "done", !.generated_code = updated_code,
                           !.shown = Append(@, updated_code)]
    IN IF ~r.ok THEN [shown EXCEPT !.error = ErrorEcho(r.error)]
       ELSE IF save
       THEN [shown EXCEPT !.files = WriteFile(@, OutputPath(output_path, c.infra_type), updated_code)]
       ELSE shown

\* cli.py 243-273: what the command does with the outcome r of the second
\* generate_infrastructure call
CliAfterModify(c, r, save, output_path) ==
    LET updated_code == r.result.code
        shown == [c EXCEPT !.pc = "done", !.shown = Append(@, updated_code)]
    IN IF ~r.ok
       THEN [c EXCEPT !.pc = "done", !.error = ErrorEcho(r.error)]
       ELSE IF save
       THEN [shown EXCEPT !.files = WriteFile(@, OutputPath(output_path, c.infra_type), updated_code)]
       ELSE shown

\* menu choice 2: modify the code with feedback, then optionally save
CliModify(feedback, save, output_path, fresh, b) ==
    LET a == [description |-> feedback_prompt(cli.infra_type, cli.description, cli.provider,
                                              cli.region, cli.tags, cli.generated_code, feedback),
              iac_type |-> cli.infra_type, cloud_provider |-> cli.provider,
              llm_provider |-> cli.llm_provider, model |-> cli.model, api_key |-> cli.api_key,
              temperature |-> cli.temperature, max_tokens |-> cli.max_tokens,
              region |-> cli.region, tags |-> cli.tags, target_versions |-> ""]
    IN /\ cli.pc = "menu"
       /\ \E r \in {generate_infrastructure(a, file, keyring, env, fresh, b)} :
            /\ keyring' = r.keyring
            /\ cli' = CliAfterModify([cli EXCEPT !.second = [called |-> TRUE, args |-> a,
                                                              out |-> r, feedback |-> feedback]],
                                     r, save, output_path)
       /\ UNCHANGED <<file, env, last, gen, gp, st, rd>>

\* menu choice 3 (or any other number): quit
CliQuit ==
    /\ cli.pc = "menu"
    /\ cli' = [cli EXCEPT !.pc = "done"]
    /\ UNCHANGED <<keyring, file, env, last, gen, gp, st, rd>>

Paths == {<<"main">>, <<"main", ".tf">>}

\* cli.py 108-111: the options of a command run without --advanced
DefaultOptions == [region |-> "", tags |-> <<>>, temperature |-> "0.2", max_tokens |-> 2048]

\* cli.py 135-146: the answers to the prompts of --advanced
AdvancedOptions ==
    {DefaultOptions,
     [region |-> "us-east-1", tags |-> <<"env=dev", "team=ops">>, temperature |-> "0.7",
      max_tokens |-> 512]}

Feedbacks == {<<"add tags">>}

CliBackends ==
    {b \in [up : BOOLEAN, listing_ok : BOOLEAN, listing : {<<>>, <<"llama3">>},
            gen_ok : BOOLEAN, text : {<<" ", "bucket", " ">>}] :
        ~b.listing_ok => b.listing = <<>>}

CliInstallations ==
    {[keyring |-> NoKey, file |-> NoFile],
     [keyring |-> "k1", file |-> StoredFile("deepseek", "deepseek-chat", <<"A">>, "k1")],
     [keyring |-> "k1", file |-> StoredFile("ollama", "llama3", None, "k1")]}

CliEnvironments == {NoEnv, EnvOf("", "", None, <<"B">>)}

(***************************************************************************)
(* The save step on its own: cli.py 189-195, 210-219, 264-273 applied to a *)
(* file system, for every infrastructure type                              *)
(***************************************************************************)
MaxSaves == 2

\* the types of INFRASTRUCTURE_FILE_EXTENSIONS and one that is not in it
SaveTypes ==
    {"Terraform", "CloudFormation", "Kubernetes (Manifests)", "Helm Chart", "Docker",
     "CI/CD Pipeline", "OPA Policy", "Azure Resource Manager (ARM)", "Pulumi"}

SavePaths ==
    {<<"main">>, <<"main", ".tf">>, <<"stack", ".yml">>, <<"notes", ".txt">>,
     <<"Dockerfile">>, <<"main", ".tf", ".bak">>}

SaveCodes == {<<"bucket">>, <<"bucket", "NL", "tags">>}

InitSave ==
    /\ keyring = NoKey /\ file = NoFile /\ env = NoEnv
    /\ last = NoCall
    /\ gen = NoGen /\ gp = NoGen
    /\ cli = CliIdle
    /\ st = WebIdle
    /\ \E t \in SaveTypes :
         rd = [called |-> FALSE, op |-> "save", infra_type |-> t, files |-> NoFiles,
               saves |-> <<>>]

\* one save of generated_code under output_path
SaveStep(output_path, generated_code) ==
    LET written == OutputPath(output_path, rd.infra_type)
    IN /\ rd.op = "save"
       /\ Len(rd.saves) < MaxSaves
       /\ rd' = [rd EXCEPT !.called = TRUE,
                           !.files = WriteFile(@, written, generated_code),
                           !.saves = Append(@, [path |-> output_path, code |-> generated_code,
                                                written |-> written, before |-> rd.files])]
       /\ UNCHANGED <<keyring, file, env, last, gen, gp, cli, st>>

\* the user names a file
SaveAs == \E output_path \in SavePaths, code \in SaveCodes : SaveStep(output_path, code)

\* the user saves again under the name that was written last
SaveAgain ==
    /\ rd.saves # <<>>
    /\ \E code \in SaveCodes : SaveStep(rd.saves[Len(rd.saves)].written, code)

NextSave == SaveAs \/ SaveAgain

SpecSave == InitSave /\ [][NextSave]_vars

(***************************************************************************)
(* Prompt building on its own: one call of create_prompt_template with     *)
(* target_versions and one without                                         *)
(***************************************************************************)
PromptTypes == {"Terraform", "Docker", "Pulumi"}

PromptDescriptions ==
    {<<"Create an S3 bucket">>, <<"Target Version Constraints: ", "terraform >= 1.5">>}

PromptClouds == {"AWS", "Azure"}

PromptRegions == {"", "us-east-1"}

\* tags as the sequence of its lines, "" a blank one
PromptTags == {<<>>, <<"env=dev">>, <<"env=dev", "", "team=ops">>}

PromptVersions == {"", "terraform >= 1.5", "aws ~> 5.0"}

InitPrompt ==
    /\ keyring = NoKey /\ file = NoFile /\ env = NoEnv
    /\ last = NoCall
    /\ gen = NoGen /\ gp = NoGen
    /\ cli = CliIdle
    /\ st = WebIdle
    /\ rd = NoGen

CreatePromptTemplate ==
    /\ ~rd.called
    /\ \E t \in PromptTypes, d \in PromptDescriptions, c \in PromptClouds, r \in PromptRegions,
          tags \in PromptTags, v \in PromptVersions :
         rd' = [called |-> TRUE, op |-> "create_prompt_template",
                args |-> [infra_type |-> t, description |-> d, cloud_provider |-> c,
                          region |-> r, tags |-> tags, target_versions |-> v],
                prompt |-> create_prompt_template(t, d, c, r, tags, v),
                again |-> create_prompt_template(t, d, c, r, tags, v),
                plain |-> create_prompt_template(t, d, c, r, tags, "")]
    /\ UNCHANGED <<keyring, file, env, last, gen, gp, cli, st>>

NextPrompt == CreatePromptTemplate

SpecPrompt == InitPrompt /\ [][NextPrompt]_vars

(***************************************************************************)
(* Two processes of the program (two commands, or a command beside the web *)
(* page) that share the keyring and the settings file.  get_fernet is two  *)
(* keyring calls, get_password and set_password, with nothing that keeps   *)
(* another process from running between them.                              *)
(***************************************************************************)
MaxCalls == 2

Procs == {"p1", "p2"}

\* Fernet.generate_key() is random: no two calls give the same key
GeneratedKey(p) == IF p = "p1" THEN "k1" ELSE "k2"

ProcIdle == [pc |-> "idle", op |-> "", key |-> NoKey, calls |-> 0]

InitKey ==
    /\ keyring = NoKey /\ file = NoFile /\ env = NoEnv
    /\ last = NoCall
    /\ gen = NoGen /\ gp = NoGen
    /\ cli = CliIdle
    /\ st = WebIdle
    /\ rd = [called |-> FALSE, op |-> "get_fernet", procs |-> [p \in Procs |-> ProcIdle]]

\* a process enters write_config, or the file part of read_config
CallOp(p) ==
    /\ rd.op = "get_fernet"
    /\ rd.procs[p].pc = "idle"
    /\ rd.procs[p].calls < MaxCalls
    /\ \E op \in {"read_config", "write_config"} :
         /\ op = "read_config" => file.exists
         /\ rd' = [rd EXCEPT !.called = TRUE,
                             !.procs[p] = [@ EXCEPT !.pc = "get_password", !.op = op,
                                                    !.calls = @ + 1]]
    /\ UNCHANGED <<keyring, file, env, last, gen, gp, cli, st>>

\* config_handler.py 16: key = keyring.get_password(...)
GetPassword(p) ==
    /\ rd.op = "get_fernet"
    /\ rd.procs[p].pc = "get_password"
    /\ rd' = [rd EXCEPT !.procs[p] = [@ EXCEPT !.pc = "set_password", !.key = keyring]]
    /\ UNCHANGED <<keyring, file, env, last, gen, gp, cli, st>>

\* config_handler.py 17-20: generate and store a key if none was read
SetPassword(p) ==
    /\ rd.op = "get_fernet"
    /\ rd.procs[p].pc = "set_password"
    /\ LET key == get_fernet(rd.procs[p].key, GeneratedKey(p))
       IN /\ keyring' = IF rd.procs[p].key = NoKey THEN key ELSE keyring
          /\ rd' = [rd EXCEPT !.procs[p] = [@ EXCEPT !.pc = "fernet", !.key = key]]
    /\ UNCHANGED <<file, env, last, gen, gp, cli, st>>

\* the rest of the operation, with the Fernet object get_fernet returned:
\* write_config encrypts and writes the file, read_config decrypts it
UseFernet(p) ==
    /\ rd.op = "get_fernet"
    /\ rd.procs[p].pc = "fernet"
    /\ file' = IF rd.procs[p].op = "write_config"
               THEN write_config([defaults |-> BuiltinDefaults, presets |-> EmptyDict],
                                 rd.procs[p].key)
               ELSE file
    /\ rd' = [rd EXCEPT !.procs[p] = [@ EXCEPT !.pc = "idle", !.op = "", !.key = NoKey]]
    /\ UNCHANGED <<keyring, env, last, gen, gp, cli, st>>

NextKey == \E p \in Procs : CallOp(p) \/ GetPassword(p) \/ SetPassword(p) \/ UseFernet(p)

SpecKey == InitKey /\ [][NextKey]_vars

(***************************************************************************)
(* write_config step by step: the file system calls it makes and the       *)
(* permission bits of the settings file                                    *)
(***************************************************************************)
MaxWrites == 2

\* the umask of the process and the mode a file it creates gets
Umasks == {"022", "002", "077"}

CreatedMode(umask) ==
    CASE umask = "022" -> "0o644"
      [] umask = "002" -> "0o664"
      [] OTHER         -> "0o600"

WrittenConfigs ==
    {[defaults |-> [provider |-> p, model |-> m,
                    api_key |-> IF s = None THEN None ELSE Encrypt(k, s)]] :
        p \in {"deepseek", "ollama"}, m \in ArgModels, s \in {None, <<"A">>}, k \in {"k1"}}

InitPerm ==
    /\ keyring \in {NoKey, "k1"} /\ file = NoFile /\ env = NoEnv
    /\ last = NoCall
    /\ gen = NoGen /\ gp = NoGen
    /\ cli = CliIdle
    /\ st = WebIdle
    /\ \E u \in Umasks :
         rd = [called |-> FALSE, op |-> "write_config", pc |-> "idle", umask |-> u,
               mode |-> "none", config |-> EmptyDict, writes |-> 0]

\* config_handler.py 92-93: get_fernet and encrypt
WriteConfigEncrypt ==
    /\ rd.op = "write_config" /\ rd.pc = "idle"
    /\ rd.writes < MaxWrites
    /\ \E config \in WrittenConfigs :
         rd' = [rd EXCEPT !.called = TRUE, !.pc = "write_bytes", !.config = config,
                          !.writes = @ + 1]
    /\ keyring' = get_fernet(keyring, "k1")
    /\ UNCHANGED <<file, env, last, gen, gp, cli, st>>

\* config_handler.py 94: CONFIG_FILE.write_bytes(encrypted_data), which
\* creates the file under the umask or keeps the mode of the file it
\* truncates
WriteBytes ==
    /\ rd.op = "write_config" /\ rd.pc = "write_bytes"
    /\ file' = write_config(rd.config, keyring)
    /\ rd' = [rd EXCEPT !.pc = "chmod",
                        !.mode = IF file.exists THEN @ ELSE CreatedMode(rd.umask)]
    /\ UNCHANGED <<keyring, env, last, gen, gp, cli, st>>

\* config_handler.py 95: CONFIG_FILE.chmod(0o600)
Chmod ==
    /\ rd.op = "write_config" /\ rd.pc = "chmod"
    /\ rd' = [rd EXCEPT !.pc = "idle", !.mode = "0o600"]
    /\ UNCHANGED <<keyring, file, env, last, gen, gp, cli, st>>

NextPerm == WriteConfigEncrypt \/ WriteBytes \/ Chmod

SpecPerm == InitPerm /\ [][NextPerm]_vars

(***************************************************************************)
(* The web session (streamlit_app.py).  A text is the sequence of its      *)
(* characters, "NL" being the newline and "BT" the backquote; None is a    *)
(* failed call.  The chat tab never changes the generated code (no system  *)
(* message is ever put into chat_history, so "Apply Changes" is not        *)
(* offered) and is left out.                                               *)
(***************************************************************************)
MaxHistory == 3

\* the command line is run beside a page that has made at most this many
\* history entries
MaxWebBeforeCli == 1

HistoryWindow == 5

Alnum == {"a", "b", "t", "f"}

WebTypes ==
    {"Terraform", "CloudFormation", "Kubernetes (Manifests)", "Helm Chart", "Docker",
     "CI/CD Pipeline", "OPA Policy", "Azure Resource Manager (ARM)"}

\* call_llm_api(provider, model, prompt, api_key, ...): the completion, or
\* None after st.error / st.warning; resp is the vendor's answer
call_llm_api(provider, api_key, resp) ==
    LET key == IF provider = "deepseek" THEN Or(api_key, env.keys["DEEPSEEK_API_KEY"])
               ELSE IF provider = "anthropic" THEN Or(api_key, env.keys["ANTHROPIC_API_KEY"])
               ELSE api_key
    IN IF provider \in {"deepseek", "anthropic"} /\ ~Truthy(key) THEN None
       ELSE IF provider \in {"openai", "deepseek", "anthropic"}
       THEN (IF resp.ok THEN resp.text ELSE None)
       ELSE None

FirstTick(t) == CHOOSE i \in 1..Len(t) : t[i] = "BT" /\ \A j \in 1..(i - 1) : t[j] # "BT"

LastTick(t) == CHOOSE i \in 1..Len(t) : t[i] = "BT" /\ \A j \in (i + 1)..Len(t) : t[j] # "BT"

\* text.split('\n')[0]
RECURSIVE FirstLine(_)
FirstLine(t) == IF t = <<>> \/ Head(t) = "NL" THEN <<>> ELSE <<Head(t)>> \o FirstLine(Tail(t))

\* '\n'.join(text.split('\n')[1:])
RestLines(t) ==
    IF Len(FirstLine(t)) = Len(t) THEN <<>> ELSE SubSeq(t, Len(FirstLine(t)) + 2, Len(t))

\* str.isalnum()
IsAlnum(t) == t # <<>> /\ \A i \in 1..Len(t) : t[i] \in Alnum

\* streamlit_app.py 547-554: the code taken out of a reply with backticks
ExtractCode(modified_code) ==
    IF ~Contains(modified_code, "BT") THEN modified_code
    ELSE LET code_start == FirstTick(modified_code) - 1 + 3
             code_end == LastTick(modified_code) - 1
             body == SubSeq(modified_code, code_start + 1, code_end)
         IN IF code_start < code_end
            THEN (IF ~IsAlnum(Strip(FirstLine(body))) THEN RestLines(body) ELSE body)
            ELSE modified_code

\* streamlit_app.py 222-279 and 572-591: the Generate Code button
WebAfterGenerate(s, infra_type, description, provider, model, response) ==
    LET supported == infra_type \in WebTypes
        ok == supported /\ Truthy(response)
    IN IF ok
       THEN [s EXCEPT !.generation_history =
                          Append(@, [infra_type |-> infra_type, description |-> description,
                                     code |-> response, provider |-> provider, model |-> model]),
                      !.generated_code = [type |-> infra_type, code |-> response],
                      !.error = <<>>, !.op = "generate", !.response = response]
       ELSE [s EXCEPT !.error = <<"Failed to generate code. Please check your API key and try again.">>,
                      !.op = "generate", !.response = IF supported THEN response ELSE None]

\* streamlit_app.py 513-570: the Modify Code button
WebAfterModify(s, modify_input, provider, model, response) ==
    LET modified_code == ExtractCode(response)
    IN IF Truthy(response)
       THEN [s EXCEPT !.generated_code.code = modified_code,
                      !.generation_history =
                          Append(@, [infra_type |-> s.generated_code.type,
                                     description |-> <<"Modified: ">> \o modify_input,
                                     code |-> modified_code, provider |-> provider, model |-> model]),
                      !.error = <<>>, !.op = "modify", !.response = response]
       ELSE [s EXCEPT !.error = <<"Failed to modify code. Please check your API key and try again.">>,
                      !.op = "modify", !.response = response]

\* reversed(generation_history[-5:])
RecentHistory(h) ==
    LET n == IF Len(h) < HistoryWindow THEN Len(h) ELSE HistoryWindow
    IN [i \in 1..n |-> h[Len(h) + 1 - i]]

WebResponses ==
    [ok : {FALSE}, text : {<<>>}] \cup
    [ok : {TRUE}, text : {<<>>, <<"a">>, <<"BT", "BT", "BT", "NL", "b", "BT", "BT", "BT">>}]

WebProviders == {"deepseek", "ollama"}

WebGenerate ==
    \E infra_type \in {"Terraform", "Pulumi"},
       description \in {<<"Create an S3 bucket with versioning">>},
       provider \in WebProviders, api_key \in {<<>>, <<"C">>}, resp \in WebResponses :
        /\ cli = CliIdle
        /\ Len(st.generation_history) < MaxHistory
        /\ \E response \in {call_llm_api(provider, api_key, resp)} :
             st' = WebAfterGenerate(st, infra_type, description, provider, "m", response)
        /\ UNCHANGED <<keyring, file, env, last, gen, gp, cli, rd>>

WebModify ==
    \E modify_input \in Feedbacks, provider \in WebProviders, api_key \in {<<>>, <<"C">>},
       resp \in WebResponses :
        /\ cli = CliIdle
        /\ st.generated_code # NoCode
        /\ Len(st.generation_history) < MaxHistory
        /\ \E response \in {call_llm_api(provider, api_key, resp)} :
             st' = WebAfterModify(st, modify_input, provider, "m", response)
        /\ UNCHANGED <<keyring, file, env, last, gen, gp, cli, rd>>

\* streamlit_app.py 617-621: the Load This Code button of a history entry
WebLoadHistory ==
    \E i \in 1..Len(RecentHistory(st.generation_history)) :
        /\ cli = CliIdle
        /\ st' = [st EXCEPT !.generated_code =
                                [type |-> RecentHistory(st.generation_history)[i].infra_type,
                                 code |-> RecentHistory(st.generation_history)[i].code],
                            !.op = "load", !.response = None]
        /\ UNCHANGED <<keyring, file, env, last, gen, gp, cli, rd>>

(***************************************************************************)
(* A session: one run of a command-line command, or one web page           *)
(***************************************************************************)
InitSession ==
    /\ \E i \in CliInstallations : keyring = i.keyring /\ file = i.file
    /\ env \in CliEnvironments
    /\ last = NoCall
    /\ gen = NoGen /\ gp = NoGen
    /\ cli = CliIdle
    /\ st = WebIdle
    /\ rd = NoGen

CliGenerateCommand ==
    \E cmd \in {"generate", "quick"}, output \in {<<>>, <<"main">>}, advanced \in BOOLEAN,
       chosen \in {"", "ollama"}, model_choice \in 0..1, o \in AdvancedOptions,
       b \in CliBackends :
    \E fresh \in (IF keyring = NoKey THEN Keys ELSE {keyring}) :
        /\ Len(st.generation_history) <= MaxWebBeforeCli
        /\ ~advanced => (chosen = "" /\ model_choice = 0 /\ b.listing = <<>> /\ b.listing_ok
                          /\ o = DefaultOptions)
        /\ o # DefaultOptions => (chosen = "" /\ model_choice = 0 /\ b.listing = <<>>)
        /\ cmd = "quick" => ~advanced
        /\ CliRun(cmd, <<"Create an S3 bucket with versioning">>, "Terraform", "AWS", output,
                  advanced, chosen, model_choice, o.region, o.tags, o.temperature,
                  o.max_tokens, fresh, b)

CliMenuSave == \E output_path \in Paths : CliSave(output_path)

CliMenuModify ==
    \E feedback \in Feedbacks, save \in BOOLEAN, output_path \in Paths, b \in CliBackends :
    \E fresh \in (IF keyring = NoKey THEN Keys ELSE {keyring}) :
        /\ b.listing = <<>> /\ b.listing_ok
        /\ CliModify(feedback, save, output_path, fresh, b)

NextSession ==
    \/ CliGenerateCommand \/ CliMenuSave \/ CliMenuModify \/ CliQuit
    \/ WebGenerate \/ WebModify \/ WebLoadHistory

SpecSession == InitSession /\ [][NextSession]_vars

(***************************************************************************)
(* Properties of a session                                                 *)
(***************************************************************************)
\* the step is a modify whose call failed: the second generate_infrastructure
\* call of the command raised, or call_llm_api gave the page nothing
CliModifyFailed == cli.pc = "menu" /\ cli'.second.called /\ ~cli'.second.out.ok

WebModifyFailed == st'.op = "modify" /\ ~Truthy(st'.response)

\* C2: session failure isolation.  In a session whose initial generation
\* succeeded with result R1, a modify whose provider call fails leaves the
\* current result R1: the code held, what was displayed, the files written
\* and the generation history are unchanged, and the error is reported.
C2_FailedModifyKeepsResult ==
    [][/\ CliModifyFailed
          => /\ cli'.generated_code = cli.first.out.result.code
             /\ cli'.generated_code = cli.generated_code
             /\ cli'.shown = cli.shown
             /\ cli'.files = cli.files
             /\ Contains(cli'.error, "Error generating infrastructure: ")
       /\ WebModifyFailed
          => /\ st'.generated_code = st.generated_code
             /\ st'.generation_history = st.generation_history
             /\ st'.error # <<>>]_vars

C2_Witness ==
    /\ cli.first.called /\ cli.first.out.ok
    /\ cli.second.called /\ cli.second.out.dispatched /\ ~cli.second.out.ok
    /\ cli.generated_code = cli.first.out.result.code
    /\ st.op = "modify" /\ ~Truthy(st.response)
    /\ Len(st.generation_history) = 1
    /\ st.generated_code.code = st.generation_history[1].code

\* C3: a failed initial generation leaves the session idle.  When the first
\* generate_infrastructure call of a command raises, no code is held or
\* displayed, no file is written even if --output was given, and the menu is
\* not reached; a failed generation on the page leaves the code held and the
\* history as they were.
C3_FailedGenerationLeavesIdle ==
    [][/\ (cli'.first.called /\ ~cli'.first.out.ok)
          => /\ cli'.pc = "done"
             /\ cli'.generated_code = None
             /\ cli'.shown = <<>>
             /\ cli'.files = NoFiles
             /\ ~cli'.second.called
             /\ Contains(cli'.error, "Error generating infrastructure: ")
       /\ (st'.op = "generate" /\ ~Truthy(st'.response))
          => /\ st'.generated_code = st.generated_code
             /\ st'.generation_history = st.generation_history
             /\ st'.error # <<>>]_vars

C3_Witness ==
    /\ cli.first.called /\ ~cli.first.out.ok
    /\ cli.requested # <<>>
    /\ cli.files = NoFiles
    /\ st.op = "generate" /\ ~Truthy(st.response)
    /\ st.generated_code = NoCode

(***************************************************************************)
(* Properties of the configuration store                                   *)
(***************************************************************************)
\* what a read_config() call returns as defaults in settings file f with
\* keyring kr, under the current environment
ReadDefaults(f, kr) == read_config(f, kr, env, kr).config.defaults

\* the stored defaults alone, as read_config merges them before it looks at
\* the environment
ReadDefaultsNoEnv(f, kr) == FileDefaults(f, kr)

\* the value the settings file holds for a field, the built-in default when
\* it holds none
StoredField(f, fld) == Get(f.defaults, fld, BuiltinDefaults[fld])

ContainsList(msg, l) ==
    \E i \in 0..(Len(msg) - Len(l)) : SubSeq(msg, i + 1, i + Len(l)) = l

SucceededWith(call, keys) ==
    call.op = "update_defaults" /\ call.ok /\ DOMAIN call.kwargs = keys

\* C1: with no environment overrides, after update_defaults(provider=P,
\* api_key=S) succeeds and then update_defaults(model=M) succeeds, read_config()
\* returns provider P, api_key S and model M.
C1_MergeNonDestructive ==
    [][(/\ env = NoEnv
        /\ SucceededWith(last, {"provider", "api_key"})
        /\ Truthy(last.kwargs["api_key"])
        /\ SucceededWith(last', {"model"}))
       => LET d == ReadDefaults(file', keyring')
          IN /\ d["provider"] = last.kwargs["provider"]
             /\ d["api_key"] = last.kwargs["api_key"]
             /\ d["model"] = last'.kwargs["model"]]_vars

NoKeyEnv == \A n \in KeyEnvNames : ~Truthy(env.keys[n])

\* C5: with no API-key environment variable set, after update_defaults(api_key=s)
\* succeeds for a non-empty s, read_config() returns defaults.api_key = s.
C5_SecretRoundTrip ==
    (/\ last.op = "update_defaults" /\ last.ok
     /\ "api_key" \in DOMAIN last.kwargs
     /\ Truthy(last.kwargs["api_key"])
     /\ NoKeyEnv)
    => ReadDefaults(file, keyring)["api_key"] = last.kwargs["api_key"]

C5_Witness ==
    /\ last.op = "update_defaults" /\ last.ok
    /\ "api_key" \in DOMAIN last.kwargs
    /\ Truthy(last.kwargs["api_key"])
    /\ NoKeyEnv
    /\ file.exists
    /\ ReadDefaults(file, keyring)["api_key"] = <<"A">>
    /\ file.defaults["api_key"] # <<"A">>

\* C6: the api_key field stored in the settings file, when present, is always
\* a ciphertext that decrypts with the keyring key.
C6_StoredSecretIsCiphertext ==
    (file.exists /\ "api_key" \in DOMAIN file.defaults)
    => Decrypt(keyring, file.defaults["api_key"]).ok

\* C7: after a successful update_defaults the stored fields that were not
\* passed equal what was stored before the call, whatever the environment
\* holds, so that values coming only from the environment are never written.
C7_ResolvedNeverPersisted ==
    [][(last'.op = "update_defaults" /\ last'.ok /\ DOMAIN last'.kwargs # {})
       => \A fld \in {"provider", "model", "api_key"} \ DOMAIN last'.kwargs :
             StoredField(file', fld) = StoredField(file, fld)]_vars

\* C8: update_defaults(provider=p) with p not registered raises an error
\* whose message contains p and the list of registered identifiers, and the
\* settings file is left exactly as it was.
C8_UnknownProviderRejected ==
    [][(/\ last'.op = "update_defaults"
        /\ "provider" \in DOMAIN last'.kwargs
        /\ ~InList(last'.kwargs["provider"], available_providers))
       => /\ ~last'.ok
          /\ Contains(last'.error, last'.kwargs["provider"])
          /\ ContainsList(last'.error, available_providers)
          /\ file' = file]_vars

C8_Witness ==
    /\ last.op = "update_defaults" /\ ~last.ok
    /\ "provider" \in DOMAIN last.kwargs
    /\ last.kwargs["provider"] = "unknown-vendor"
    /\ Contains(last.error, "unknown-vendor")
    /\ file.exists

(***************************************************************************)
(* Properties of credential resolution and the registry                    *)
(***************************************************************************)
StoredSecret == ReadDefaultsNoEnv(file, keyring)["api_key"]

\* n is the one API-key variable the environment sets
OnlyEnvSecret(n) ==
    Truthy(env.keys[n]) /\ \A m \in KeyEnvNames \ {n} : env.keys[m] = None

\* C4: with stored secret A, an environment secret B and explicit argument C
\* the provider is handed C; with the argument omitted B; with neither the
\* argument nor an environment secret, A.
C4_SecretPrecedence ==
    (gen.called /\ gen.out.dispatched /\ StoredSecret = <<"A">>)
    => /\ Truthy(gen.args.api_key) => gen.out.handed = gen.args.api_key
       /\ \A n \in {provider_env_key_name(gen.out.provider), "IACGENIUS_API_KEY"} :
             (gen.args.api_key = None /\ OnlyEnvSecret(n)) => gen.out.handed = env.keys[n]
       /\ (gen.args.api_key = None /\ \A n \in KeyEnvNames : env.keys[n] = None)
             => gen.out.handed = <<"A">>

\* C9: get_provider(name) with a name outside the registry raises an error
\* that enumerates exactly the registered identifiers, in the order
\* get_available_providers() returns them, and constructs no provider.
C9_UnknownProviderEnumerates ==
    (gp.called /\ ~InList(gp.name, available_providers))
    => /\ ~gp.out.ok
       /\ ~gp.out.constructed
       /\ ContainsList(gp.out.error, gp.listed)
       /\ gp.listed = <<"deepseek", "openai", "anthropic", "openrouter", "bedrock", "ollama">>
       /\ \A i \in 1..Len(gp.out.error) :
             InList(gp.out.error[i], gp.listed)
             \/ gp.out.error[i] \in {"Unsupported provider: ", gp.name, ". Supported: "}

C9_Witness ==
    gp.called /\ gp.name = "unknown-vendor" /\ ~gp.out.ok /\ file.exists
    /\ ContainsList(gp.out.error, available_providers)

BothEnvSecrets ==
    /\ gen.called /\ gen.args.api_key = None
    /\ Truthy(env.keys[provider_env_key_name(gen.defaults["provider"])])
    /\ Truthy(env.keys["IACGENIUS_API_KEY"])
    /\ env.keys[provider_env_key_name(gen.defaults["provider"])] # env.keys["IACGENIUS_API_KEY"]

\* C10 as stated: with {PROVIDER}_API_KEY and IACGENIUS_API_KEY both set to
\* different values and no explicit argument, the resolved secret is the
\* generic variable's value.
C10_GenericEnvWins ==
    BothEnvSecrets => gen.defaults["api_key"] = env.keys["IACGENIUS_API_KEY"]

\* C10 amended: with {PROVIDER}_API_KEY of the provider read_config resolves
\* and IACGENIUS_API_KEY both set to different values, read_config resolves
\* the secret to the provider-specific variable's value, and
\* generate_infrastructure without an explicit argument uses it.
C10_SpecificEnvWins ==
    BothEnvSecrets
    => /\ gen.defaults["api_key"] = env.keys[provider_env_key_name(gen.defaults["provider"])]
       /\ gen.out.dispatched => gen.out.handed = gen.defaults["api_key"]

C10_Witness ==
    /\ BothEnvSecrets
    /\ gen.out.dispatched
    /\ gen.out.handed = <<"B">>
    /\ env.keys["IACGENIUS_API_KEY"] = <<"G">>
    /\ ReadDefaultsNoEnv(file, keyring)["api_key"] = <<"A">>

SecretBearing == {"deepseek", "openai", "anthropic", "openrouter"}

\* the provider's own {PROVIDER}_API_KEY value
OwnEnvSecret == env.keys[provider_env_key_name(gp.name)]

\* C11 as stated: each of deepseek, openai, anthropic and openrouter captures
\* the explicit argument, else its own environment variable, else the stored
\* default secret, and construction fails only when all three are absent.
C11_UniformResolution ==
    (gp.called /\ gp.name \in SecretBearing)
    => LET expected == Or(gp.api_key, Or(OwnEnvSecret, StoredSecret))
       IN /\ gp.out.ok => gp.out.api_key = expected
          /\ ~gp.out.ok => ~Truthy(expected)

\* C11 amended: deepseek, openai and anthropic capture the explicit argument,
\* else their own environment variable, else the secret read_config()
\* resolves; openrouter captures the explicit argument, else
\* OPENROUTER_API_KEY, and never the stored secret.  Construction fails
\* exactly when every source the provider consults is absent.
C11_ResolutionPerProvider ==
    (gp.called /\ gp.name \in SecretBearing)
    => LET expected == IF gp.name = "openrouter" THEN Or(gp.api_key, OwnEnvSecret)
                       ELSE Or(gp.api_key, Or(OwnEnvSecret, gp.defaults["api_key"]))
       IN /\ gp.out.ok <=> Truthy(expected)
          /\ gp.out.ok => gp.out.api_key = expected
          /\ (gp.out.ok /\ gp.api_key = None /\ NoKeyEnv) => gp.out.api_key = StoredSecret

C11_Witness ==
    /\ gp.called /\ gp.name = "openrouter" /\ gp.api_key = None
    /\ StoredSecret = <<"A">>
    /\ OwnEnvSecret = None
    /\ ~gp.out.ok

(***************************************************************************)
(* Properties of reading the settings                                      *)
(***************************************************************************)
\* the file decrypts with the key obtained, and its api_key field does not
DamagedSecretField ==
    /\ rd.called /\ rd.op = "read_config"
    /\ file.exists /\ rd.out.failure = "none"
    /\ "api_key" \in DOMAIN file.defaults
    /\ Truthy(file.defaults["api_key"])
    /\ ~Decrypt(rd.out.keyring, file.defaults["api_key"]).ok

\* the secret the environment supplies for the provider read_config resolves
EnvSecretFor(provider) ==
    Or(env.keys[provider_env_key_name(provider)], env.keys["IACGENIUS_API_KEY"])

\* C12: when the settings file decrypts but its api_key field is corrupted or
\* foreign ciphertext, read_config() does not raise, returns api_key None
\* unless an environment secret is set, and still returns the stored provider
\* and model.
C12_DecryptionDegradation ==
    DamagedSecretField
    => LET d == rd.out.config.defaults
       IN /\ ~rd.out.raised
          /\ d["api_key"] = (IF Truthy(EnvSecretFor(d["provider"]))
                             THEN EnvSecretFor(d["provider"]) ELSE None)
          /\ env.provider = "" => d["provider"] = file.defaults["provider"]
          /\ env.model = "" => d["model"] = file.defaults["model"]

C12_Witness ==
    /\ DamagedSecretField
    /\ file.defaults["api_key"] = Encrypt("k2", <<"A">>)
    /\ NoKeyEnv /\ env.provider = ""
    /\ rd.out.config.defaults["api_key"] = None
    /\ rd.out.config.defaults["provider"] = "openai"

\* C13 as stated: read_config() raises exactly when the settings file exists
\* and the encryption key cannot be obtained from the credential store.
C13_RaisesIffKeyUnobtainable ==
    rd.called => (rd.out.raised <=> (file.exists /\ rd.before = KeyStoreDown))

\* C13 amended: read_config() never raises; when the file is missing, when
\* the key cannot be obtained and when the contents do not decrypt or parse,
\* it returns the built-in defaults merged with the environment overrides.
C13_NeverRaises ==
    rd.called
    => /\ ~rd.out.raised
       /\ (~file.exists \/ rd.out.failure # "none")
          => /\ rd.out.config.defaults = EnvDefaults(BuiltinDefaults, env)
             /\ rd.out.config.presets = EmptyDict

C13_Witness ==
    /\ rd.called /\ file.exists /\ rd.before = KeyStoreDown
    /\ rd.out.failure = "keyring"
    /\ ~rd.out.raised
    /\ rd.out.config.defaults["provider"] # file.defaults["provider"]

(***************************************************************************)
(* Properties of the refinement loop                                       *)
(***************************************************************************)
\* C14: after a successful modify the command is again at the menu holding
\* the new result, so that modify, save and quit can be chosen again and a
\* further modify embeds the latest code.
C14_RepeatedRefinement ==
    [][(cli.pc = "menu" /\ cli'.second.called /\ cli'.second.out.ok)
       => /\ cli'.pc = "menu"
          /\ cli'.generated_code = cli'.second.out.result.code]_vars

(***************************************************************************)
(* Properties of model listing                                             *)
(***************************************************************************)
ListingFailed == rd.called /\ rd.op = "list_models" /\ ~rd.backend.listing_ok

\* C15 as stated: for each of the six providers, when the backend listing
\* call fails list_models() returns an empty sequence and does not raise.
C15_ListingFailureGivesEmpty ==
    (ListingFailed /\ rd.name # "anthropic") => (rd.out.ok /\ rd.out.models = <<>>)

\* C15 amended: no list_models() raises.  When the backend listing call
\* fails deepseek, openai, openrouter and ollama return the empty sequence
\* and bedrock returns the names of its static model map; anthropic makes no
\* backend call and always returns its static list.
C15_ListingFailureFallback ==
    (rd.called /\ rd.op = "list_models")
    => /\ rd.out.ok
       /\ (ListingFailed /\ rd.name \in {"deepseek", "openai", "openrouter", "ollama"})
             => rd.out.models = <<>>
       /\ (ListingFailed /\ rd.name = "bedrock") => rd.out.models = BedrockModelMap
       /\ rd.name = "anthropic" => rd.out.models = AnthropicModels

C15_Witness ==
    /\ ListingFailed /\ rd.name = "bedrock"
    /\ rd.out.models # <<>>

GetModelsCalled == rd.called /\ rd.op = "get_available_models"

\* obtaining the list failed: the provider could not be constructed, its
\* listing call failed, or its list_models raised
ObtainingFailed ==
    GetModelsCalled /\ (~rd.constructed \/ ~rd.backend.listing_ok \/ rd.backend.raises)

\* C16 as stated: whenever obtaining the model list fails, including failure
\* to construct the provider, get_available_models returns an empty sequence
\* instead of raising.
C16_ListingNeverSurfaces ==
    (ObtainingFailed /\ rd.name \notin {"anthropic", "bedrock"})
    => (rd.out.ok /\ rd.out.models = <<>>)

\* C16 amended: get_available_models raises exactly when get_provider raises
\* its configuration error (missing credential, unreachable backend at
\* construction); once the provider is constructed, a listing call that
\* fails or a list_models that raises gives the provider's fallback list or
\* the empty sequence, never an error.
C16_OnlyConstructionSurfaces ==
    GetModelsCalled
    => /\ rd.out.ok <=> rd.constructed
       /\ ~rd.out.ok => Contains(rd.error, "Error initializing ")
       /\ (rd.constructed /\ rd.backend.raises) => rd.out.models = <<>>
       /\ (rd.constructed /\ ~rd.backend.listing_ok /\ rd.name \notin {"anthropic", "bedrock"})
             => rd.out.models = <<>>

C16_Witness ==
    /\ GetModelsCalled /\ rd.name = "openai"
    /\ ~rd.constructed /\ ~rd.out.ok
    /\ Contains(rd.error, "openai")

\* update_defaults was called with a model and obtained the model list of
\* the effective provider
ModelValidated ==
    /\ rd.called /\ rd.op = "update_defaults"
    /\ ~ProviderRejected(rd.kwargs)
    /\ rd.listing.ok

ProviderText == ProviderGenerate(gen.out.provider, gen.out.model, gen.backend).text

\* the provider's generate call returned (it did not raise)
ProviderReturned == ProviderGenerate(gen.out.provider, gen.out.model, gen.backend).ok

\* c is T without its leading and trailing whitespace and otherwise unchanged
IsStripOf(c, T) ==
    /\ \E i \in 0..Len(T), j \in 0..Len(T) :
          /\ i + j <= Len(T)
          /\ c = SubSeq(T, i + 1, Len(T) - j)
          /\ \A k \in 1..i : T[k] \in Whitespace
          /\ \A k \in (Len(T) - j + 1)..Len(T) : T[k] \in Whitespace
    /\ c # <<>> => (c[1] \notin Whitespace /\ c[Len(c)] \notin Whitespace)

\* C18: when the provider returns text T, generate_infrastructure returns a
\* result whose code is T with leading and trailing whitespace removed and
\* nothing else changed, and whose llm_provider and model are the provider
\* name and the model passed to the provider's generate call.
C18_ResultIsTrimmedText ==
    (gen.called /\ gen.out.constructed /\ gen.backend.gen_ok /\ ProviderReturned)
    => /\ gen.out.ok
       /\ IsStripOf(gen.out.result.code, ProviderText)
       /\ gen.out.result.llm_provider = gen.out.provider
       /\ gen.out.result.model = gen.out.model
       /\ gen.out.provider = IF gen.args.llm_provider # "" THEN gen.args.llm_provider
                             ELSE gen.defaults["provider"]
       /\ gen.args.model # "" => gen.out.model = gen.args.model

C18_Witness ==
    /\ gen.called /\ gen.out.ok
    /\ gen.out.provider = "openai"
    /\ ProviderText = <<"NL", "a", " ", "b", "TAB">>
    /\ gen.out.result.code = <<"a", " ", "b">>

\* the secret generate_infrastructure resolves: the argument unless it is
\* None, else the one read_config returns
ResolvedSecret ==
    IF gen.args.api_key # None THEN gen.args.api_key ELSE gen.defaults["api_key"]

MissingSecret ==
    gen.called /\ gen.out.provider \in providers_requiring_keys /\ ~Truthy(ResolvedSecret)

\* C20: every error that escapes generate_infrastructure is one of its two
\* configuration errors and names the LLM provider involved; when a
\* key-requiring provider has no resolved secret the error is raised before
\* any provider is constructed or contacted.
C20_ErrorsNameProvider ==
    (gen.called /\ ~gen.out.ok)
    => /\ Contains(gen.out.error, gen.out.provider)
       /\ \/ gen.out.error = KeyRequiredMessage(gen.out.provider)
          \/ SubSeq(gen.out.error, 1, 3) = <<"Generation failed using ", gen.out.provider, ": ">>
       /\ MissingSecret => /\ ~gen.out.dispatched /\ ~gen.out.constructed
                           /\ Contains(gen.out.error, "API key for provider '")
       /\ gen.out.result = NoResult

C20_Witness ==
    /\ MissingSecret /\ ~gen.out.ok
    /\ gen.out.provider = "openrouter"
    /\ StoredSecret = <<"A">>
    /\ gen.args.api_key = <<>>
    /\ ~gen.out.dispatched

\* a 2xx answer that lacks the completion field
FieldMissing ==
    /\ rd.called /\ rd.op = "generate"
    /\ rd.response.status = "ok"
    /\ rd.response.field \in {"no-container", "missing"}

\* C19: for every provider and every Bedrock model family, a 2xx response
\* that lacks the completion field makes generate raise a generation error;
\* it never returns None.
C19_MissingFieldRaises ==
    FieldMissing => (~rd.out.ok /\ rd.out.error # <<>>)

(***************************************************************************)
(* Validation of a credential                                              *)
(***************************************************************************)
ValidationCalled == rd.called /\ rd.op = "validate_api_key"

\* the backend reports the credential or the connection as invalid
ReportedInvalid == rd.answer \in {"401", "403", "unreachable"}

\* C21: for every provider, when the backend reports the credential or the
\* connection as invalid (401, 403, unreachable), validate_api_key raises;
\* it never returns False.
C21_ValidationFailureRaises ==
    ValidationCalled =>
        /\ ReportedInvalid => ~rd.out.ok
        /\ rd.out.ok => rd.out.value = "True"

(***************************************************************************)
(* The request of the modify step                                          *)
(***************************************************************************)
\* s occurs in t as a contiguous run of parts
Segment(t, s) == \E i \in 0..(Len(t) - Len(s)) : SubSeq(t, i + 1, i + Len(s)) = s

CarriedOver ==
    {"iac_type", "cloud_provider", "llm_provider", "model", "api_key", "temperature",
     "max_tokens", "region", "tags"}

\* the three delimited parts of the modify request
ModifyParts ==
    {<<"- Infrastructure Description: ">> \o cli.first.args.description,
     <<"Previously generated code: ">> \o cli.first.out.result.code,
     <<"User feedback for modifications: ">> \o cli.second.feedback}

\* C22: the modify step calls generation again with a description that holds
\* the original description, the code of the first generation and the
\* feedback, each under its heading, and with the iac type, cloud provider,
\* LLM provider, model, secret, temperature, max_tokens, region and tags of
\* the first generation; the prompt handed to the provider holds the three
\* parts too.
C22_ModifyRequest ==
    cli.second.called =>
        /\ cli.first.called /\ cli.first.out.ok
        /\ \A k \in CarriedOver : cli.second.args[k] = cli.first.args[k]
        /\ \A part \in ModifyParts : Segment(cli.second.args.description, part)
        /\ cli.second.out.constructed =>
              /\ \A part \in ModifyParts : Segment(cli.second.out.prompt, part)
              /\ cli.second.out.handed = cli.first.out.handed

C22_Witness ==
    /\ cli.second.called /\ cli.second.out.constructed
    /\ cli.first.args.region = "us-east-1"
    /\ cli.first.args.temperature = "0.7"
    /\ cli.second.out.handed # None

(***************************************************************************)
(* Saving                                                                  *)
(***************************************************************************)
SaveCalled == rd.called /\ rd.op = "save"

EndsRecognized(path) ==
    \E ext \in {".tf", ".yaml", ".yml", ".json", ".rego"} : path[Len(path)] = ext

\* C23: the file written is the path itself when the path ends in .tf,
\* .yaml, .yml, .json or .rego and the path followed by
\* get_file_extension(type) otherwise; its content is the code; a second
\* save with the same path and code writes the same file and leaves the
\* file system as the first save left it.
C23_SaveDeterministic ==
    SaveCalled =>
        /\ \A i \in 1..Len(rd.saves) :
             LET s == rd.saves[i]
             IN /\ EndsRecognized(s.path) => s.written = s.path
                /\ ~EndsRecognized(s.path) =>
                       s.written = s.path \o <<get_file_extension(rd.infra_type)>>
                /\ \A j \in 1..Len(rd.saves) :
                       (i < j /\ rd.saves[j].path = s.path /\ rd.saves[j].code = s.code) =>
                           /\ rd.saves[j].written = s.written
                           /\ j = i + 1 =>
                                (IF j = Len(rd.saves) THEN rd.files
                                 ELSE rd.saves[j + 1].before) = rd.saves[j].before
        /\ LET l == rd.saves[Len(rd.saves)]
           IN /\ l.written \in DOMAIN rd.files
              /\ rd.files[l.written] = l.code
              /\ DOMAIN rd.files = DOMAIN l.before \cup {l.written}

C23_Witness ==
    /\ SaveCalled /\ Len(rd.saves) = 2
    /\ rd.saves[1].path = rd.saves[2].path /\ rd.saves[1].code = rd.saves[2].code
    /\ ~EndsRecognized(rd.saves[1].path)
    /\ rd.infra_type = "Docker"
    /\ Cardinality(DOMAIN rd.files) = 1

\* C28: the name the save step writes is left unchanged by the save step:
\* saving again under the name that was written writes the same file.
C28_SuffixFixedPoint ==
    SaveCalled =>
        \A i \in 1..Len(rd.saves) - 1 :
            rd.saves[i + 1].path = rd.saves[i].written =>
                rd.saves[i + 1].written = rd.saves[i].written

(***************************************************************************)
(* Prompt building                                                         *)
(***************************************************************************)
PromptBuilt == rd.called /\ rd.op = "create_prompt_template"

\* t is s with the run of parts c put in at one place
AddsOneClause(t, s, c) ==
    \E i \in 0..Len(s) : t = SubSeq(s, 1, i) \o c \o SubSeq(s, i + 1, Len(s))

\* C24: two calls with the same arguments give the same prompt, and the
\* prompt built with target_versions v is the prompt built without it with
\* one version clause, naming v, put in; nothing else differs.
C24_PromptPurity ==
    PromptBuilt =>
        /\ rd.again = rd.prompt
        /\ rd.args.target_versions = "" => rd.prompt = rd.plain
        /\ rd.args.target_versions # "" =>
              AddsOneClause(rd.prompt, rd.plain,
                            <<"Target Version Constraints: ", rd.args.target_versions>>)

C24_Witness ==
    /\ PromptBuilt
    /\ rd.args.target_versions = "aws ~> 5.0"
    /\ rd.args.tags # <<>> /\ rd.args.region # ""
    /\ rd.prompt # rd.plain

(***************************************************************************)
(* The encryption key                                                      *)
(***************************************************************************)
\* C25: once the keyring holds a key, no step of get_fernet replaces it with
\* another key, also where two callers both find the keyring empty; so the
\* settings file stays decryptable with the stored key.
C25_KeyCreatedOnce ==
    [][(keyring # NoKey => keyring' = keyring)
       /\ (file'.exists /\ keyring' # NoKey => file'.key = keyring')]_vars

(***************************************************************************)
(* The permissions of the settings file                                    *)
(***************************************************************************)
\* C26: whenever the settings file exists because write_config wrote it, its
\* mode is 0600, after a write and at every step of the write that creates
\* the file.
C26_OwnerOnly ==
    (rd.called /\ rd.op = "write_config" /\ file.exists) => rd.mode = "0o600"

(***************************************************************************)
(* Backends without a credential                                           *)
(***************************************************************************)
CredentialLess == {"bedrock", "ollama"}

\* C27: for bedrock and ollama generate_infrastructure goes on to construct
\* the provider whether or not a secret is resolved; the constructed
\* provider holds no api_key, whatever was passed, stored or set in the
\* environment, and its requests carry none.
C27_CredentialLessBackends ==
    /\ (gen.called /\ gen.out.provider \in CredentialLess) =>
          /\ gen.out.dispatched
          /\ gen.out.constructed = gen.backend.up
          /\ gen.out.captured = None
          /\ gen.out.sent = None
    /\ (gp.called /\ gp.name \in CredentialLess) =>
          /\ gp.out.ok = gp.out.constructed
          /\ gp.out.api_key = None

C27_Witness ==
    /\ gen.called /\ gen.out.provider = "bedrock" /\ gen.args.llm_provider = "bedrock"
    /\ gen.args.api_key = <<"C">>
    /\ gen.defaults["api_key"] # None
    /\ gen.out.handed = <<"C">>
    /\ gen.out.constructed

(***************************************************************************)
(* Secrets across providers                                                *)
(***************************************************************************)
\* the API-key variables of the providers other than p
ForeignEnvNames(p) == KeyEnvNames \ {provider_env_key_name(p), "IACGENIUS_API_KEY"}

\* C29: the secret generate_infrastructure hands to provider P is never the
\* value of another provider's own environment variable; it is the explicit
\* argument, P's own variable, IACGENIUS_API_KEY or the stored secret.
C29_NoCrossProviderSecret ==
    (gen.called /\ gen.out.dispatched) =>
        /\ \A n \in ForeignEnvNames(gen.out.provider) :
              Truthy(env.keys[n]) => gen.out.handed # env.keys[n]
        /\ gen.out.handed \in {gen.args.api_key, env.keys[provider_env_key_name(gen.out.provider)],
                               env.keys["IACGENIUS_API_KEY"], StoredSecret}

(***************************************************************************)
(* The stored provider and the stored model                                *)
(***************************************************************************)
\* a successful update_defaults after which the stored provider lists models
StoredAfterUpdate ==
    /\ rd.called /\ rd.op \in {"update_defaults", "update_defaults_provider"}
    /\ rd.out.ok
    /\ rd.listing.ok

ProviderOnlyUpdate == rd.called /\ rd.op = "update_defaults_provider"

\* C30 as stated: after a successful update_defaults, also one that changes
\* only the provider, the stored model belongs to the model list of the
\* stored provider whenever that list is not empty.
C30_StoredModelConsistent ==
    (StoredAfterUpdate /\ rd.listing.models # <<>>) =>
        InList(file.defaults["model"], rd.listing.models)

\* C30 amended: a successful call that passes a model stores that model, and
\* the model belongs to the list of the provider the call stores whenever
\* that list is not empty.  A call that passes a provider and no model is
\* accepted iff the provider is registered, whatever the provider lists; it
\* stores the provider and leaves the model as it was resolved before the
\* call, without validating it.
C30_ModelValidatedOnlyWhenPassed ==
    /\ (StoredAfterUpdate /\ rd.op = "update_defaults") =>
          /\ file.defaults["model"] = rd.kwargs["model"]
          /\ file.defaults["provider"] = rd.effective
          /\ rd.listing.models # <<>> => InList(file.defaults["model"], rd.listing.models)
    /\ ProviderOnlyUpdate =>
          /\ rd.out.ok <=> InList(rd.kwargs["provider"], available_providers)
          /\ rd.out.ok => /\ file.defaults["provider"] = rd.kwargs["provider"]
                          /\ file.defaults["model"] = rd.resolved["model"]
          /\ ~rd.out.ok => file = rd.before

C30_Witness ==
    /\ ProviderOnlyUpdate /\ rd.out.ok
    /\ rd.kwargs["provider"] = "bedrock"
    /\ rd.before.exists /\ rd.before.defaults["provider"] = "deepseek"
    /\ rd.listing.ok /\ rd.listing.models # <<>>
    /\ file.defaults["model"] = "deepseek-chat"
    /\ ~InList(file.defaults["model"], rd.listing.models)

====
